---- MODULE Spec2Model ----
(***************************************************************************)
(* Failure-First Harness: the failure specification document, the ffh      *)
(* command line (cli/ffh.js), the standalone freeze tool                   *)
(* (failurespec/freeze.js) and the FailureSpec validator (validate.js).    *)
(*                                                                         *)
(* Encoding of JavaScript values:                                          *)
(*   - free text (ids, titles, evidence, reasons, identities, arguments)   *)
(*     is a sequence of one-character strings, so that toUpperCase,        *)
(*     toLowerCase, includes, length and the id pattern are computed;      *)
(*   - Null is the null/undefined string, Absent the undefined object;     *)
(*   - enumerated fields (state, severity, evidence type, version) are     *)
(*     TLA+ strings, "" standing for a missing value;                      *)
(*   - timestamps are readings of the clock `now`, NoTime standing for     *)
(*     null.                                                               *)
(***************************************************************************)
EXTENDS Integers, Sequences, FiniteSets, TLC

\* ------------------------------------------------------------------ bounds
MaxClock == 2          \* readings of the clock: 1..MaxClock
MaxDiscoveries == 1    \* discover is not offered beyond this ledger length
MaxLedger == 3         \* the same, in the ledger specification

\* ------------------------------------------------------- JavaScript values
Null == <<"<null>">>
Absent == [absent |-> TRUE]
NoTime == 0

Truthy(s) == s # Null /\ s # <<>>

LowerChars == <<"a","b","c","d","e","f","g","h","i","j","k","l","m",
                "n","o","p","q","r","s","t","u","v","w","x","y","z">>
UpperChars == <<"A","B","C","D","E","F","G","H","I","J","K","L","M",
                "N","O","P","Q","R","S","T","U","V","W","X","Y","Z">>
Digits == {"0","1","2","3","4","5","6","7","8","9"}

LowerChar(c) ==
  IF \E i \in 1..26 : UpperChars[i] = c
  THEN LowerChars[CHOOSE i \in 1..26 : UpperChars[i] = c]
  ELSE c

UpperChar(c) ==
  IF \E i \in 1..26 : LowerChars[i] = c
  THEN UpperChars[CHOOSE i \in 1..26 : LowerChars[i] = c]
  ELSE c

toLowerCase(s) == [i \in 1..Len(s) |-> LowerChar(s[i])]
toUpperCase(s) == [i \in 1..Len(s) |-> UpperChar(s[i])]

\* String.prototype.includes
includes(s, p) ==
  \E i \in 0..(Len(s) - Len(p)) : SubSeq(s, i + 1, i + Len(p)) = p

\* a || b on strings
Or(a, b) == IF Truthy(a) THEN a ELSE b

\* ------------------------------------------------------------ text literals
S_F001 == <<"F","0","0","1">>
S_F002 == <<"F","0","0","2">>
S_f001 == <<"f","0","0","1">>
S_F003 == <<"F","0","0","3">>
S_F009 == <<"F","0","0","9">>
S_X1 == <<"X","1">>
S_alice == <<"a","l","i","c","e">>
S_aliceMail == <<"a","l","i","c","e","@","e","x","a","m","p","l","e",".","c","o","m">>
S_agent007 == <<"a","g","e","n","t","-","0","0","7">>
S_BotUpper == <<"R","o","B","O","T">>
S_daisy == <<"D","a","i","s","y">>
S_builder == <<"b","u","i","l","d","e","r">>
S_verifier == <<"v","e","r","i","f","i","e","r">>
S_unknown == <<"u","n","k","n","o","w","n">>
S_NotSpecified == <<"N","o","t"," ","s","p","e","c","i","f","i","e","d">>
S_ManualVerification ==
  <<"M","a","n","u","a","l"," ","v","e","r","i","f","i","c","a","t","i","o","n">>
S_UnnamedFeature ==
  <<"U","n","n","a","m","e","d"," ","f","e","a","t","u","r","e">>
S_testPassed == <<"t","e","s","t"," ","p","a","s","s","e","d">>
S_bypass == <<"b","y","p","a","s","s">>
S_design == <<"h","m","a","c">>
S_location == <<"a",".","j","s",":","1","-","9">>
S_race == <<"r","a","c","e">>
S_cond == <<"r","e","t","u","r","n","s"," ","4","0","1">>
S_step == <<"P","O","S","T">>
S_ok200 == <<"2","0","0">>
S_criteria == <<"t","e","s","t","_","s","i","g">>
S_title1 == <<"S","i","g"," ","b","y","p","a","s","s">>
S_title2 == <<"R","e","p","l","a","y">>
S_titleLong == [i \in 1..81 |-> "x"]

FlagDesign == <<"-","-","d","e","s","i","g","n">>
FlagLocation == <<"-","-","l","o","c","a","t","i","o","n">>
FlagEvidence == <<"-","-","e","v","i","d","e","n","c","e">>
FlagMethod == <<"-","-","m","e","t","h","o","d">>
FlagReason == <<"-","-","r","e","a","s","o","n">>
FlagBy == <<"-","-","b","y">>
FlagReviewBy == <<"-","-","r","e","v","i","e","w","-","b","y">>

\* ------------------------------------------------------------ data model
\* FailureEntry (README "FailureSpec v1.0"); status is Absent until a command
\* or the author writes one.
EmptyStatus ==
  [state |-> "", guardrail |-> Absent, verification |-> Absent,
   rejection |-> Absent, risk_acceptance |-> Absent]

Unaddressed == [EmptyStatus EXCEPT !.state = "unaddressed"]

GoodOracle == [condition |-> S_cond, falsifiable |-> "true"]
GoodRepro == [steps |-> [array |-> TRUE, items |-> <<S_step>>],
              expected_if_vulnerable |-> S_ok200]
GoodEvidence == [type |-> "unit_test", criteria |-> S_criteria]

E_F001 ==
  [id |-> S_F001, title |-> S_title1, severity |-> "critical",
   oracle |-> GoodOracle, repro |-> GoodRepro, evidence |-> GoodEvidence,
   ownership |-> "owned", inherited_from |-> Null, status |-> Absent]
E_F002 ==
  [E_F001 EXCEPT !.id = S_F002, !.title = S_title2, !.severity = "high",
                 !.evidence.type = "code_review", !.status = Unaddressed]
E_F003 == [E_F001 EXCEPT !.id = S_F003, !.title = S_title2]
E_BadId == [E_F002 EXCEPT !.id = S_X1]
E_LongTitle == [E_F002 EXCEPT !.title = S_titleLong]
E_BadSeverity == [E_F002 EXCEPT !.severity = "urgent"]
E_NoSteps == [E_F002 EXCEPT !.repro.steps.items = <<>>]
E_NoOracle == [E_F002 EXCEPT !.oracle = Absent]

\* The failure lists an author writes into failures.json.
FailureLists ==
  { <<>>, <<E_F001>>, <<E_F001, E_BadId>>,
    <<E_LongTitle>>, <<E_BadSeverity>>, <<E_NoSteps>>, <<E_NoOracle>> }

\* The (version, metadata.feature, failures) triples an author writes.
AuthoredContents ==
  { [version |-> "1.0", feature |-> S_UnnamedFeature, failures |-> fl] :
      fl \in FailureLists }
  \cup { [version |-> "2.0", feature |-> S_UnnamedFeature, failures |-> <<E_F001>>],
         [version |-> "1.0", feature |-> Null, failures |-> <<E_F001>>],
         [version |-> "", feature |-> S_UnnamedFeature, failures |-> <<E_F002>>] }

StateOf(f) == IF f.status = Absent \/ f.status.state = "" THEN "unaddressed"
              ELSE f.status.state

\* ------------------------------------------------------------- validate.js
SEVERITY_ORDER == <<"critical", "high", "medium", "low">>
\* VALID_STATES with one more state accepted
VALID_STATES_open ==
  <<"unaddressed", "in_progress", "claimed", "verified", "rejected", "accepted_risk",
    "bogus">>
VALID_STATES ==
  <<"unaddressed", "in_progress", "claimed", "verified", "rejected", "accepted_risk">>
VALID_EVIDENCE_TYPES ==
  <<"unit_test", "integration_test", "e2e_test", "fuzz", "load_test", "manual",
    "code_review", "security_test", "timing_analysis", "log_analysis", "log_search",
    "network_capture", "header_inspection", "traffic_analysis", "token_inspection",
    "manual_test", "log_inspection">>

Range(seq) == { seq[i] : i \in 1..Len(seq) }

\* /^F\d{3}$/.test(id)
IdPattern(id) ==
  /\ Len(id) = 4
  /\ id[1] = "F"
  /\ \A i \in 2..4 : id[i] \in Digits

MaxTitle == 80

S_vague1 == <<"s","h","o","u","l","d"," ","b","e"," ","s","e","c","u","r","e">>
S_vague2 == <<"m","u","s","t"," ","b","e"," ","s","a","f","e">>
S_vague3 == <<"n","e","e","d","s"," ","t","o"," ","w","o","r","k">>
vaguePhrases == <<S_vague1, S_vague2, S_vague3>>

Err(c, e) == IF c THEN <<e>> ELSE <<>>

\* What JSON.parse yields for the failures key: "array" (the sequence in
\* spec.failures), "missing", or "other" (an object); the document carries the
\* field failures_kind only when it is not an array.
FailuresKind(spec) ==
  IF "failures_kind" \in DOMAIN spec THEN spec.failures_kind ELSE "array"

validateSchema(spec) ==
  Err(spec.version = "", "version.missing")
  \o Err(spec.version # "" /\ spec.version # "1.0", "version.invalid")
  \o (IF spec.metadata = Absent THEN <<"metadata">>
      ELSE Err(~Truthy(spec.metadata.feature), "metadata.feature")
           \o Err(~Truthy(spec.metadata.created_by), "metadata.created_by"))
  \o Err(FailuresKind(spec) = "missing", "failures.missing")
  \o Err(FailuresKind(spec) = "other", "failures.array")

validateFailure(failure) ==
  Err(~Truthy(failure.id), "id.missing")
  \o Err(Truthy(failure.id) /\ ~IdPattern(failure.id), "id.format")
  \o Err(~Truthy(failure.title), "title.missing")
  \o Err(Truthy(failure.title) /\ Len(failure.title) > MaxTitle, "title.long")
  \o Err(failure.severity = "", "severity.missing")
  \o Err(failure.severity # "" /\ failure.severity \notin Range(SEVERITY_ORDER),
         "severity.invalid")
  \o (IF failure.oracle = Absent THEN <<"oracle">>
      ELSE (IF ~Truthy(failure.oracle.condition) THEN <<"oracle.condition">>
            ELSE SelectSeq([i \in 1..Len(vaguePhrases) |->
                              IF includes(toLowerCase(failure.oracle.condition),
                                          vaguePhrases[i])
                              THEN "oracle.vague" ELSE ""],
                           LAMBDA e : e # ""))
           \o Err(failure.oracle.falsifiable = "undefined", "oracle.falsifiable"))
  \o (IF failure.repro = Absent THEN <<"repro">>
      ELSE Err(~failure.repro.steps.array \/ Len(failure.repro.steps.items) = 0,
               "repro.steps")
           \o Err(~Truthy(failure.repro.expected_if_vulnerable),
                  "repro.expected_if_vulnerable"))
  \o (IF failure.evidence = Absent THEN <<"evidence">>
      ELSE Err(failure.evidence.type = "", "evidence.type.missing")
           \o Err(failure.evidence.type # ""
                  /\ failure.evidence.type \notin Range(VALID_EVIDENCE_TYPES),
                  "evidence.type.invalid")
           \o Err(~Truthy(failure.evidence.criteria), "evidence.criteria"))
  \o (IF failure.status = Absent THEN <<>>
      ELSE Err(failure.status.state = "", "status.state.missing")
           \o Err(failure.status.state # ""
                  /\ failure.status.state \notin Range(VALID_STATES),
                  "status.state.invalid")
           \o (IF failure.status.state = "verified"
               THEN (IF failure.status.verification = Absent
                     THEN <<"status.verification">>
                     ELSE Err(~Truthy(failure.status.verification.evidence),
                              "status.verification.evidence"))
               ELSE <<>>)
           \o (IF failure.status.state = "accepted_risk"
               THEN (IF failure.status.risk_acceptance = Absent
                     THEN <<"status.risk_acceptance">>
                     ELSE Err(~Truthy(failure.status.risk_acceptance.accepted_by),
                              "status.risk_acceptance.accepted_by"))
               ELSE <<>>))
  \o Err(failure.ownership = "inherited" /\ ~Truthy(failure.inherited_from),
         "inherited_from")

RECURSIVE validateFailures(_, _)
validateFailures(failures, i) ==
  IF i > Len(failures) THEN <<>>
  ELSE validateFailure(failures[i]) \o validateFailures(failures, i + 1)

\* validate(filepath) without the lint option: the error list of the result
validate(spec) == validateSchema(spec) \o validateFailures(spec.failures, 1)

\* lint: the optional fields impact and detection are read when the entry has
\* them
Has(f, field) == field \in DOMAIN f

S_assert1 == <<"l","o","o","k","s"," ","c","o","r","r","e","c","t">>
S_assert2 == <<"s","e","e","m","s"," ","f","i","n","e">>
S_assert3 == <<"a","p","p","e","a","r","s"," ","t","o"," ","w","o","r","k">>
S_assert4 == <<"s","h","o","u","l","d"," ","w","o","r","k">>
assertionPhrases == <<S_assert1, S_assert2, S_assert3, S_assert4>>

lintErrors(failures, i) ==
  LET f == failures[i]
  IN Err(Truthy(f.id) /\ \E j \in 1..(i - 1) : failures[j].id = f.id,
         "id.duplicate")

lintWarnings(failures, i) ==
  LET f == failures[i]
  IN Err(Truthy(f.title)
         /\ \E j \in 1..(i - 1) :
              /\ Truthy(failures[j].title)
              /\ toLowerCase(failures[j].title) = toLowerCase(f.title),
         "title.duplicate")
     \o (IF f.severity \in {"critical", "high"}
         THEN Err(~Has(f, "impact"), "impact")
              \o Err(~Has(f, "detection"), "detection")
         ELSE <<>>)
     \o (IF f.evidence # Absent /\ Truthy(f.evidence.criteria)
         THEN SelectSeq([n \in 1..Len(assertionPhrases) |->
                           IF includes(toLowerCase(f.evidence.criteria),
                                       assertionPhrases[n])
                           THEN "criteria.assertion" ELSE ""],
                        LAMBDA e : e # "")
         ELSE <<>>)

RECURSIVE lintLoop(_, _)
lintLoop(failures, i) ==
  IF i > Len(failures) THEN [errors |-> <<>>, warnings |-> <<>>]
  ELSE LET rest == lintLoop(failures, i + 1)
       IN [errors |-> lintErrors(failures, i) \o rest.errors,
           warnings |-> lintWarnings(failures, i) \o rest.warnings]

lint(spec) ==
  IF FailuresKind(spec) = "missing" THEN [errors |-> <<>>, warnings |-> <<>>]
  ELSE LET loop == lintLoop(spec.failures, 1)
       IN [errors |-> loop.errors,
           warnings |-> loop.warnings
                        \o Err(spec.metadata # Absent
                               /\ spec.metadata.frozen_at # NoTime, "frozen")]

\* Inputs that are not documents of the schema: a file JSON.parse fails on
\* (or that is not there), the JSON text null, the entry null, and a number
\* where text is expected.
Unparseable == [unparseable |-> TRUE]
JsonNull == [json_null |-> TRUE]
NullEntry == [null_entry |-> TRUE]
NotAString == <<"<number>">>

\* failure.id of null, and toLowerCase of a number, raise a TypeError
validateFailureThrows(failure) ==
  \/ failure = NullEntry
  \/ /\ failure.oracle # Absent
     /\ failure.oracle.condition = NotAString

lintThrows(spec) ==
  /\ FailuresKind(spec) = "array"
  /\ \E i \in 1..Len(spec.failures) :
       \/ spec.failures[i].title = NotAString
       \/ /\ spec.failures[i].evidence # Absent
          /\ spec.failures[i].evidence.criteria = NotAString

\* validate(filepath, options): the ValidationResult it returns, the exit it
\* takes on an unreadable file, or the TypeError that escapes it
validate_file(file, lintMode) ==
  IF file = Absent \/ file = Unparseable THEN [kind |-> "exit", code |-> 1]
  ELSE IF file = JsonNull THEN [kind |-> "throw"]
  ELSE IF /\ FailuresKind(file) = "array"
          /\ \E i \in 1..Len(file.failures) :
               validateFailureThrows(file.failures[i])
       THEN [kind |-> "throw"]
  ELSE IF lintMode /\ lintThrows(file) THEN [kind |-> "throw"]
  ELSE [kind |-> "result",
        errors |-> validate(file)
                   \o (IF lintMode THEN lint(file).errors ELSE <<>>),
        warnings |-> IF lintMode THEN lint(file).warnings ELSE <<>>]

\* main of validate.js: exit 0 when result.valid, exit 1 otherwise
validate_main(file, lintMode) ==
  LET r == validate_file(file, lintMode)
  IN IF r.kind = "result"
     THEN [kind |-> "result", errors |-> r.errors, warnings |-> r.warnings,
           lint |-> lintMode, code |-> IF Len(r.errors) = 0 THEN 0 ELSE 1]
     ELSE IF r.kind = "exit"
     THEN [kind |-> "exit", lint |-> lintMode, code |-> 1]
     ELSE [kind |-> "throw", lint |-> lintMode, code |-> 1]

\* --------------------------------------------------------------- cli/ffh.js
\* The option loops of the commands: for (i = 1; i < args.length; i++), an
\* option is taken when args[i] is one of the command's flags and args[i + 1]
\* is truthy, and then i skips the value. args[0] is TLA+ index 1.
RECURSIVE ParseOptions(_, _, _, _)
ParseOptions(args, i, flags, acc) ==
  IF i > Len(args) THEN acc
  ELSE IF args[i] \in flags /\ i + 1 <= Len(args) /\ Truthy(args[i + 1])
       THEN ParseOptions(args, i + 2, flags, [acc EXCEPT ![args[i]] = args[i + 1]])
       ELSE ParseOptions(args, i + 1, flags, acc)

Options(args, flags) == ParseOptions(args, 2, flags, [f \in flags |-> Null])

\* findFailure: index of the first entry whose id is the upper-cased argument,
\* 0 when there is none
findFailure(spec, id) ==
  LET upperId == toUpperCase(id)
      hits == { i \in 1..Len(spec.failures) : spec.failures[i].id = upperId }
  IN IF hits = {} THEN 0 ELSE CHOOSE i \in hits : \A j \in hits : i <= j

\* process.exit(1) before saveSpec: the file is left as it was
Exit1(spec) == [spec |-> spec, exit |-> 1]
Saved(spec) == [spec |-> spec, exit |-> 0]

StatusOrEmpty(f) == IF f.status = Absent THEN EmptyStatus ELSE f.status

commands_init(spec, user) ==
  IF spec # Absent THEN Saved(spec)
  ELSE Saved([version |-> "1.0",
              metadata |-> [feature |-> S_UnnamedFeature,
                            created_by |-> Or(user, S_unknown),
                            frozen_at |-> NoTime,
                            frozen_commit |-> "null"],
              failures |-> <<>>])

\* commands.freeze without the test of metadata.frozen_at
commands_freeze_refreezes(spec, t, commit) ==
  IF spec = Absent THEN Exit1(spec)
  ELSE IF Len(spec.failures) = 0 THEN Exit1(spec)
  ELSE Saved([spec EXCEPT !.metadata.frozen_at = t,
                          !.metadata.frozen_commit = commit])

commands_freeze(spec, t, commit) ==
  IF spec = Absent THEN Exit1(spec)
  ELSE IF spec.metadata.frozen_at # NoTime THEN Exit1(spec)
  ELSE IF Len(spec.failures) = 0 THEN Exit1(spec)
  ELSE Saved([spec EXCEPT !.metadata.frozen_at = t,
                          !.metadata.frozen_commit = commit])

\* commands.claim writing the status of every entry instead of the one found
commands_claim_every_entry(spec, args, user, t) ==
  IF spec = Absent THEN Exit1(spec)
  ELSE IF Len(args) = 0 \/ ~Truthy(args[1]) THEN Exit1(spec)
  ELSE IF findFailure(spec, args[1]) = 0 THEN Exit1(spec)
  ELSE LET opt == Options(args, {FlagDesign, FlagLocation})
           guardrail ==
             [design |-> Or(opt[FlagDesign], S_NotSpecified),
              location |-> Or(opt[FlagLocation], S_NotSpecified),
              implemented_by |-> Or(user, S_builder),
              implemented_at |-> t]
       IN Saved([spec EXCEPT !.failures =
                   [j \in 1..Len(spec.failures) |->
                      [spec.failures[j] EXCEPT !.status =
                         [StatusOrEmpty(spec.failures[j]) EXCEPT
                            !.state = "claimed", !.guardrail = guardrail]]]])

commands_claim(spec, args, user, t) ==
  IF spec = Absent THEN Exit1(spec)
  ELSE IF Len(args) = 0 \/ ~Truthy(args[1]) THEN Exit1(spec)
  ELSE LET k == findFailure(spec, args[1]) IN
    IF k = 0 THEN Exit1(spec)
    ELSE LET opt == Options(args, {FlagDesign, FlagLocation})
             st == StatusOrEmpty(spec.failures[k])
             old == st.guardrail
             guardrail ==
               [design |-> Or(opt[FlagDesign],
                              Or(IF old = Absent THEN Null ELSE old.design,
                                 S_NotSpecified)),
                location |-> Or(opt[FlagLocation],
                                Or(IF old = Absent THEN Null ELSE old.location,
                                   S_NotSpecified)),
                implemented_by |-> Or(user, S_builder),
                implemented_at |-> t]
         IN Saved([spec EXCEPT !.failures[k].status =
                     [st EXCEPT !.state = "claimed", !.guardrail = guardrail]])

\* hashContent: 'sha256:' + the first 16 hex digits of the digest; the digest
\* is a position-weighted checksum of the text
Alphabet == LowerChars \o UpperChars \o <<" ", "0", "1", "2", "3", "4", "5", "6", "7",
                                          "8", "9", "-", "_", ".", ":", "@">>
CharCode(c) == IF \E i \in 1..Len(Alphabet) : Alphabet[i] = c
               THEN CHOOSE i \in 1..Len(Alphabet) : Alphabet[i] = c
               ELSE 0
RECURSIVE Digest(_, _)
Digest(s, i) == IF i > Len(s) THEN 0
                ELSE (i * CharCode(s[i]) + 31 * Digest(s, i + 1)) % 65536
evidence_hash(evidence) == [alg |-> "sha256", digest |-> Digest(evidence, 1)]

\* commands.verify without the test of the CLAIMED state
commands_verify_any_state(spec, args, user, t) ==
  IF spec = Absent THEN Exit1(spec)
  ELSE IF Len(args) = 0 \/ ~Truthy(args[1]) THEN Exit1(spec)
  ELSE LET k == findFailure(spec, args[1]) IN
    IF k = 0 THEN Exit1(spec)
    ELSE LET opt == Options(args, {FlagEvidence, FlagMethod})
             evidence == opt[FlagEvidence]
         IN IF ~Truthy(evidence) THEN Exit1(spec)
            ELSE Saved([spec EXCEPT !.failures[k].status =
                   [StatusOrEmpty(spec.failures[k]) EXCEPT
                      !.state = "verified",
                      !.verification =
                        [method |-> Or(opt[FlagMethod], S_ManualVerification),
                         evidence |-> evidence,
                         evidence_hash |-> evidence_hash(evidence),
                         verified_by |-> Or(user, S_verifier),
                         verified_at |-> t]]])

\* commands.verify without the test of --evidence
commands_verify_without_evidence(spec, args, user, t) ==
  IF spec = Absent THEN Exit1(spec)
  ELSE IF Len(args) = 0 \/ ~Truthy(args[1]) THEN Exit1(spec)
  ELSE LET k == findFailure(spec, args[1]) IN
    IF k = 0 THEN Exit1(spec)
    ELSE IF spec.failures[k].status = Absent
            \/ spec.failures[k].status.state # "claimed" THEN Exit1(spec)
    ELSE LET opt == Options(args, {FlagEvidence, FlagMethod})
             evidence == opt[FlagEvidence]
         IN Saved([spec EXCEPT !.failures[k].status =
                   [@ EXCEPT !.state = "verified",
                             !.verification =
                               [method |-> Or(opt[FlagMethod], S_ManualVerification),
                                evidence |-> evidence,
                                evidence_hash |-> evidence_hash(evidence),
                                verified_by |-> Or(user, S_verifier),
                                verified_at |-> t]]])

commands_verify(spec, args, user, t) ==
  IF spec = Absent THEN Exit1(spec)
  ELSE IF Len(args) = 0 \/ ~Truthy(args[1]) THEN Exit1(spec)
  ELSE LET k == findFailure(spec, args[1]) IN
    IF k = 0 THEN Exit1(spec)
    ELSE IF spec.failures[k].status = Absent
            \/ spec.failures[k].status.state # "claimed" THEN Exit1(spec)
    ELSE LET opt == Options(args, {FlagEvidence, FlagMethod})
             evidence == opt[FlagEvidence]
         IN IF ~Truthy(evidence) THEN Exit1(spec)
            ELSE Saved([spec EXCEPT !.failures[k].status =
                   [@ EXCEPT !.state = "verified",
                             !.verification =
                               [method |-> Or(opt[FlagMethod], S_ManualVerification),
                                evidence |-> evidence,
                                evidence_hash |-> evidence_hash(evidence),
                                verified_by |-> Or(user, S_verifier),
                                verified_at |-> t]]])

\* commands.reject leaving the entry in the state rejected
commands_reject_leaves_rejected(spec, args, user, t) ==
  IF spec = Absent THEN Exit1(spec)
  ELSE IF Len(args) = 0 \/ ~Truthy(args[1]) THEN Exit1(spec)
  ELSE LET k == findFailure(spec, args[1]) IN
    IF k = 0 THEN Exit1(spec)
    ELSE IF spec.failures[k].status = Absent
            \/ spec.failures[k].status.state # "claimed" THEN Exit1(spec)
    ELSE LET opt == Options(args, {FlagReason})
             reason == opt[FlagReason]
         IN IF ~Truthy(reason) THEN Exit1(spec)
            ELSE Saved([spec EXCEPT !.failures[k].status =
                   [@ EXCEPT !.state = "rejected",
                             !.rejection =
                               [reason |-> reason,
                                rejected_by |-> Or(user, S_verifier),
                                rejected_at |-> t]]])

\* commands.reject writing a fresh status object: the guardrail is lost
commands_reject_drops_guardrail(spec, args, user, t) ==
  IF spec = Absent THEN Exit1(spec)
  ELSE IF Len(args) = 0 \/ ~Truthy(args[1]) THEN Exit1(spec)
  ELSE LET k == findFailure(spec, args[1]) IN
    IF k = 0 THEN Exit1(spec)
    ELSE IF spec.failures[k].status = Absent
            \/ spec.failures[k].status.state # "claimed" THEN Exit1(spec)
    ELSE LET opt == Options(args, {FlagReason})
             reason == opt[FlagReason]
         IN IF ~Truthy(reason) THEN Exit1(spec)
            ELSE Saved([spec EXCEPT !.failures[k].status =
                   [EmptyStatus EXCEPT
                      !.state = "unaddressed",
                      !.rejection =
                        [reason |-> reason,
                         rejected_by |-> Or(user, S_verifier),
                         rejected_at |-> t]]])

commands_reject(spec, args, user, t) ==
  IF spec = Absent THEN Exit1(spec)
  ELSE IF Len(args) = 0 \/ ~Truthy(args[1]) THEN Exit1(spec)
  ELSE LET k == findFailure(spec, args[1]) IN
    IF k = 0 THEN Exit1(spec)
    ELSE IF spec.failures[k].status = Absent
            \/ spec.failures[k].status.state # "claimed" THEN Exit1(spec)
    ELSE LET opt == Options(args, {FlagReason})
             reason == opt[FlagReason]
         IN IF ~Truthy(reason) THEN Exit1(spec)
            ELSE Saved([spec EXCEPT !.failures[k].status =
                   [@ EXCEPT !.state = "unaddressed",
                             !.rejection =
                               [reason |-> reason,
                                rejected_by |-> Or(user, S_verifier),
                                rejected_at |-> t]]])

agentPatterns ==
  << <<"a","g","e","n","t">>, <<"b","o","t">>, <<"a","i">>,
     <<"c","l","a","u","d","e">>, <<"g","p","t">>,
     <<"a","s","s","i","s","t","a","n","t">> >>

\* the agent test without toLowerCase
IsAgent_case_sensitive(acceptedBy) ==
  \E i \in 1..Len(agentPatterns) : includes(acceptedBy, agentPatterns[i])

IsAgent(acceptedBy) ==
  LET byLower == toLowerCase(acceptedBy)
  IN \E i \in 1..Len(agentPatterns) : includes(byLower, agentPatterns[i])

\* commands['accept-risk'] saving the entry before the agent test
commands_accept_risk_saves_early(spec, args, t) ==
  IF spec = Absent THEN Exit1(spec)
  ELSE IF Len(args) = 0 \/ ~Truthy(args[1]) THEN Exit1(spec)
  ELSE LET k == findFailure(spec, args[1]) IN
    IF k = 0 THEN Exit1(spec)
    ELSE LET opt == Options(args, {FlagReason, FlagBy, FlagReviewBy})
             reason == opt[FlagReason]
             acceptedBy == opt[FlagBy]
             saved == [spec EXCEPT !.failures[k].status =
                   [StatusOrEmpty(spec.failures[k]) EXCEPT
                      !.state = "accepted_risk",
                      !.risk_acceptance =
                        [reason |-> reason,
                         accepted_by |-> acceptedBy,
                         accepted_at |-> t,
                         review_by |-> Or(opt[FlagReviewBy], Null)]]]
         IN IF ~Truthy(reason) \/ ~Truthy(acceptedBy) THEN Exit1(spec)
            ELSE IF IsAgent(acceptedBy) THEN [spec |-> saved, exit |-> 1]
            ELSE Saved(saved)

commands_accept_risk(spec, args, t) ==
  IF spec = Absent THEN Exit1(spec)
  ELSE IF Len(args) = 0 \/ ~Truthy(args[1]) THEN Exit1(spec)
  ELSE LET k == findFailure(spec, args[1]) IN
    IF k = 0 THEN Exit1(spec)
    ELSE LET opt == Options(args, {FlagReason, FlagBy, FlagReviewBy})
             reason == opt[FlagReason]
             acceptedBy == opt[FlagBy]
         IN IF ~Truthy(reason) \/ ~Truthy(acceptedBy) THEN Exit1(spec)
            ELSE IF IsAgent(acceptedBy) THEN Exit1(spec)
            ELSE Saved([spec EXCEPT !.failures[k].status =
                   [StatusOrEmpty(spec.failures[k]) EXCEPT
                      !.state = "accepted_risk",
                      !.risk_acceptance =
                        [reason |-> reason,
                         accepted_by |-> acceptedBy,
                         accepted_at |-> t,
                         review_by |-> Or(opt[FlagReviewBy], Null)]]])

\* args.join(' ')
RECURSIVE Join(_, _)
Join(args, i) ==
  IF i > Len(args) THEN <<>>
  ELSE IF i = Len(args) THEN args[i]
  ELSE args[i] \o <<" ">> \o Join(args, i + 1)

\* String(nextNum).padStart(3, '0') behind 'D'
DecimalDigits == <<"0","1","2","3","4","5","6","7","8","9">>
RECURSIVE Decimal(_)
Decimal(n) == IF n < 10 THEN <<DecimalDigits[n + 1]>>
              ELSE Decimal(n \div 10) \o <<DecimalDigits[(n % 10) + 1]>>
PadStart3(s) == IF Len(s) >= 3 THEN s ELSE [i \in 1..(3 - Len(s)) |-> "0"] \o s
\* the id without padStart
DiscoveryId_unpadded(nextNum) == <<"D">> \o Decimal(nextNum)

DiscoveryId(nextNum) == <<"D">> \o PadStart3(Decimal(nextNum))

\* The ledger file is created by init together with the directory; a missing
\* file reads as an empty ledger (loadJSON(...) || { discoveries: [] }).
commands_discover(initialized, ledger, args, user, t) ==
  IF ~initialized THEN [ledger |-> ledger, exit |-> 1]
  ELSE LET description == Join(args, 1) IN
    IF ~Truthy(description) THEN [ledger |-> ledger, exit |-> 1]
    ELSE LET nextNum == Len(ledger) + 1
         IN [ledger |-> Append(ledger,
                          [id |-> DiscoveryId(nextNum),
                           description |-> description,
                           discovered_by |-> Or(user, S_unknown),
                           discovered_at |-> t,
                           disposition |-> "pending"]),
             exit |-> 0]

\* ------------------------------------------------------ failurespec/freeze.js
validateBeforeFreeze(spec) ==
  Err(spec.version # "1.0", "version")
  \o Err(~Truthy(spec.metadata.feature), "metadata.feature")
  \o Err(spec.metadata.frozen_at # NoTime, "frozen")
  \o Err(Len(spec.failures) = 0, "failures")
  \o SelectSeq([i \in 1..Len(spec.failures) |->
                  LET f == spec.failures[i]
                  IN IF ~Truthy(f.id) \/ ~Truthy(f.title) \/ f.severity = ""
                        \/ f.oracle = Absent \/ f.repro = Absent
                        \/ f.evidence = Absent
                     THEN "fields" ELSE ""],
               LAMBDA e : e # "")

\* main of freeze.js on the document file; cliCommit is the --commit option
\* (Null when not given), gitCommit what git rev-parse HEAD yields
freeze_main(spec, cliCommit, gitCommit, t) ==
  IF spec = Absent THEN Exit1(spec)
  ELSE IF Len(validateBeforeFreeze(spec)) > 0 THEN Exit1(spec)
  ELSE Saved([spec EXCEPT !.metadata.frozen_at = t,
                          !.metadata.frozen_commit =
                            IF cliCommit # "null" THEN cliCommit ELSE gitCommit])

\* ------------------------------------------------ verifier runner (run.js)
\* A value that is an object where text is expected.
ObjectValue == <<"<object>">>

\* Array.prototype.slice and String.prototype.slice
slice(s, from, to) ==
  LET n == Len(s)
      a == IF from < 0 THEN (IF n + from < 0 THEN 0 ELSE n + from)
           ELSE (IF from > n THEN n ELSE from)
      b == IF to < 0 THEN (IF n + to < 0 THEN 0 ELSE n + to)
           ELSE (IF to > n THEN n ELSE to)
  IN SubSeq(s, a + 1, b)

\* 'sha256:' + the first 16 hex digits of the digest: a weighted sum of the
\* character codes, taken by halves
RECURSIVE PositionSum(_, _, _)
PositionSum(s, lo, hi) ==
  IF lo > hi THEN 0
  ELSE IF lo = hi THEN (lo * CharCode(s[lo])) % 65536
  ELSE LET mid == (lo + hi) \div 2
       IN (PositionSum(s, lo, mid) + PositionSum(s, mid + 1, hi)) % 65536
hashContent(content) ==
  [alg |-> "sha256", digest |-> PositionSum(content, 1, Len(content))]

P_test == <<"t","e","s","t">>
P_testDir == <<"t","e","s","t","/">>
P_testsDir == <<"t","e","s","t","s","/">>
P_underTestsDir == <<"_","_","t","e","s","t","s","_","_","/">>
P_failuresDir == <<"t","e","s","t","/","f","a","i","l","u","r","e","s","/">>
P_caseStudy ==
  <<"c","a","s","e","-","s","t","u","d","y","/","*","*","/","t","e","s","t","-">>
P_testJs == <<".","t","e","s","t",".","j","s">>
P_testTs == <<".","t","e","s","t",".","t","s">>
P_js == <<".","j","s">>

testPatterns(id) ==
  << P_testDir \o toLowerCase(id) \o P_testJs,
     P_testDir \o toLowerCase(id) \o P_testTs,
     P_testsDir \o toLowerCase(id) \o P_testJs,
     P_underTestsDir \o toLowerCase(id) \o P_testJs,
     P_failuresDir \o id \o P_testJs,
     P_caseStudy \o toLowerCase(id) \o P_js >>

\* \w of a regular expression
WordChar(c) ==
  \/ \E i \in 1..26 : LowerChars[i] = c \/ UpperChars[i] = c
  \/ c \in Digits
  \/ c = "_"

\* criteria.match(/test[_\-]?(\w+)/i): the matched text, <<>> without a match
WordRunEnd(s, j) ==
  CHOOSE k \in j..Len(s) :
    /\ \A m \in j..k : WordChar(s[m])
    /\ (k = Len(s) \/ ~WordChar(s[k + 1]))
MatchesAt(s, i) ==
  /\ i + 4 <= Len(s)
  /\ toLowerCase(SubSeq(s, i, i + 3)) = P_test
  /\ \/ WordChar(s[i + 4])
     \/ /\ s[i + 4] = "-"
        /\ i + 5 <= Len(s)
        /\ WordChar(s[i + 5])
criteriaMatch(s) ==
  IF \E i \in 1..Len(s) : MatchesAt(s, i)
  THEN LET i == CHOOSE i \in 1..Len(s) :
                  MatchesAt(s, i) /\ \A h \in 1..(i - 1) : ~MatchesAt(s, h)
           j == IF WordChar(s[i + 4]) THEN i + 4 ELSE i + 5
       IN SubSeq(s, i, WordRunEnd(s, j))
  ELSE <<>>

\* findTestFile: the path of the test file, Null when there is none; tests is
\* the set of paths fs.existsSync finds under baseDir
findTestFile(failure, tests) ==
  LET pats == testPatterns(failure.id)
  IN IF \E n \in 1..Len(pats) : pats[n] \in tests
     THEN pats[CHOOSE n \in 1..Len(pats) :
                 pats[n] \in tests /\ \A h \in 1..(n - 1) : pats[h] \notin tests]
     ELSE IF /\ failure.evidence # Absent
             /\ Truthy(failure.evidence.criteria)
             /\ criteriaMatch(failure.evidence.criteria) # <<>>
             /\ (P_testDir \o criteriaMatch(failure.evidence.criteria) \o P_js)
                  \in tests
          THEN P_testDir \o criteriaMatch(failure.evidence.criteria) \o P_js
          ELSE Null

\* failure.id.toLowerCase() and criteria.match fault on a missing id and on
\* a criteria that is not text
findTestFileThrows(failure, tests) ==
  \/ failure.id = Null
  \/ failure.id = NotAString
  \/ /\ \A n \in 1..6 : testPatterns(failure.id)[n] \notin tests
     /\ failure.evidence # Absent
     /\ failure.evidence.criteria = NotAString

\* What a collector returns; error is "" and evidence_hash Absent when the
\* returned object has no such key.
Collected(success, method, evidence, hash, error, note) ==
  [success |-> success, method |-> method, evidence |-> evidence,
   evidence_hash |-> hash, error |-> error, note |-> note]
NotCollected(error, note) == Collected(FALSE, Null, Null, Absent, error, note)

MaxEvidence == 2000
M_Executed == <<"E","x","e","c","u","t","e","d"," ","t","e","s","t",":"," ">>

\* collectTestEvidence; run is what spawnSync returns, its status -1 when the
\* child timed out, was killed or could not be started
NoStatus == -1
\* collectTestEvidence that does not look at the exit status
collectTestEvidence_ignores_status(failure, workspace) ==
  LET testFile == findTestFile(failure, workspace.tests)
      output == Or(workspace.run.stdout, <<>>) \o Or(workspace.run.stderr, <<>>)
  IN IF testFile = Null THEN NotCollected("No test file found", "")
     ELSE Collected(TRUE, M_Executed \o testFile, slice(output, 0, MaxEvidence),
                    hashContent(output), "", "")

collectTestEvidence(failure, workspace) ==
  LET testFile == findTestFile(failure, workspace.tests)
      output == Or(workspace.run.stdout, <<>>) \o Or(workspace.run.stderr, <<>>)
      passed == workspace.run.status = 0
  IN IF testFile = Null THEN NotCollected("No test file found", "")
     ELSE Collected(passed, M_Executed \o testFile, slice(output, 0, MaxEvidence),
                    hashContent(output),
                    IF passed THEN "" ELSE "Test failed with exit code", "")

\* location.match(/^(.+?)(?::(\d+)(?:-(\d+))?)?$/) on a location of one line:
\* the shortest file path whose rest is empty, :start or :start-end
IsDigitRun(s, a, b) == a <= b /\ \A m \in a..b : s[m] \in Digits
RestIsRange(s, k) ==
  /\ k < Len(s)
  /\ s[k + 1] = ":"
  /\ \E d \in (k + 2)..Len(s) :
       /\ IsDigitRun(s, k + 2, d)
       /\ \/ d = Len(s)
          \/ s[d + 1] = "-" /\ IsDigitRun(s, d + 2, Len(s))
ParseLocation(location) ==
  LET n == Len(location)
      ends == { k \in 1..n : k = n \/ RestIsRange(location, k) }
      k == CHOOSE e \in ends : \A h \in ends : e <= h
      d == IF k = n THEN k
           ELSE CHOOSE e \in (k + 2)..n :
                  /\ IsDigitRun(location, k + 2, e)
                  /\ (e = n \/ location[e + 1] = "-")
  IN [filePath |-> SubSeq(location, 1, k),
      startLine |-> IF k = n THEN Null ELSE SubSeq(location, k + 2, d),
      endLine |-> IF k = n \/ d = n THEN Null ELSE SubSeq(location, d + 2, n)]

RECURSIVE parseInt(_)
parseInt(s) ==
  IF Len(s) = 0 THEN 0
  ELSE parseInt(SubSeq(s, 1, Len(s) - 1)) * 10
       + (CHOOSE v \in 0..9 : DecimalDigits[v + 1] = s[Len(s)])

\* lines.join('\n'); a file is kept as its lines, so content.split('\n') is
\* the field lines and the content their join
RECURSIVE JoinLines(_, _)
JoinLines(lines, i) ==
  IF i > Len(lines) THEN <<>>
  ELSE IF i = Len(lines) THEN lines[i]
  ELSE lines[i] \o <<"\n">> \o JoinLines(lines, i + 1)

P_external == <<"e","x","t","e","r","n","a","l">>
P_infrastructure ==
  <<"i","n","f","r","a","s","t","r","u","c","t","u","r","e">>
M_External ==
  <<"E","x","t","e","r","n","a","l"," ","d","e","p","e","n","d","e","n","c","y">>
M_Delegated ==
  <<"I","m","p","l","e","m","e","n","t","a","t","i","o","n"," ","d","e","l","e",
    "g","a","t","e","d"," ","t","o",":"," ">>
M_CodeReview == <<"C","o","d","e"," ","r","e","v","i","e","w",":"," ">>
ExcerptChars == 500
ExcerptLines == 10

collectCodeReviewEvidence(failure, workspace) ==
  IF \/ failure.status = Absent
     \/ failure.status.guardrail = Absent
     \/ ~Truthy(failure.status.guardrail.location)
  THEN NotCollected("No implementation location specified", "")
  ELSE
    LET location == failure.status.guardrail.location
        match == ParseLocation(location)
        source == workspace.source
    IN IF source = Absent \/ source.path # match.filePath
       THEN IF includes(location, P_external) \/ includes(location, P_infrastructure)
            THEN Collected(TRUE, M_External, M_Delegated \o location,
                           hashContent(location), "",
                           "External implementations require separate verification")
            ELSE NotCollected("File not found", "")
       ELSE IF ~source.readable THEN NotCollected("Cannot read file", "")
       ELSE
         LET content == JoinLines(source.lines, 1)
             excerpt ==
               IF match.startLine # Null /\ match.endLine # Null
               THEN JoinLines(slice(source.lines, parseInt(match.startLine) - 1,
                                    parseInt(match.endLine)), 1)
               ELSE IF match.startLine # Null
               THEN JoinLines(slice(source.lines, parseInt(match.startLine) - 1,
                                    parseInt(match.startLine) + ExcerptLines), 1)
               ELSE slice(content, 0, ExcerptChars)
         IN Collected(TRUE, M_CodeReview \o match.filePath, excerpt,
                      hashContent(content), "", "")

collectManualEvidence(failure, workspace) ==
  NotCollected("Manual evidence type requires human verification",
               "Convert to automated test for CI verification")

collectSecurityTestEvidence(failure, workspace) ==
  IF findTestFile(failure, workspace.tests) # Null
  THEN collectTestEvidence(failure, workspace)
  ELSE NotCollected("No security test found", "")

\* EVIDENCE_COLLECTORS[evidenceType] || collectManualEvidence: the name of
\* what the lookup yields. The table is an object literal, so a key of
\* Object.prototype is found too: "constructor" yields Object, "toString" the
\* prototype's toString, and "__proto__" the prototype, which is not callable.
OwnCollector(evidenceType) ==
  CASE evidenceType \in {"unit_test", "integration_test", "e2e_test", "fuzz",
                         "load_test", "timing_analysis", "log_analysis",
                         "log_search", "log_inspection", "network_capture",
                         "header_inspection", "traffic_analysis",
                         "token_inspection"} -> "collectTestEvidence"
    [] evidenceType = "code_review" -> "collectCodeReviewEvidence"
    [] evidenceType \in {"manual", "manual_test"} -> "collectManualEvidence"
    [] evidenceType = "security_test" -> "collectSecurityTestEvidence"
    [] OTHER -> ""
EVIDENCE_COLLECTORS(evidenceType) ==
  IF OwnCollector(evidenceType) # "" THEN OwnCollector(evidenceType)
  ELSE IF evidenceType = "constructor" THEN "Object"
  ELSE IF evidenceType = "toString" THEN "Object.prototype.toString"
  ELSE IF evidenceType = "__proto__" THEN "Object.prototype"
  ELSE "collectManualEvidence"

\* collector(failure, baseDir). Object(failure) is the entry itself, whose
\* keys success, method, evidence and error are then read as the result's;
\* toString yields a string, which has none of them.
Collect(failure, workspace) ==
  LET collector ==
        EVIDENCE_COLLECTORS(IF failure.evidence = Absent \/ failure.evidence.type = ""
                            THEN "manual" ELSE failure.evidence.type)
  IN CASE collector = "collectTestEvidence" ->
            collectTestEvidence(failure, workspace)
       [] collector = "collectCodeReviewEvidence" ->
            collectCodeReviewEvidence(failure, workspace)
       [] collector = "collectSecurityTestEvidence" ->
            collectSecurityTestEvidence(failure, workspace)
       [] collector = "Object" ->
            Collected(Has(failure, "success") /\ failure.success, Null,
                      ObjectValue, Absent, "", "")
       [] collector = "Object.prototype.toString" -> NotCollected("", "")
       [] OTHER -> collectManualEvidence(failure, workspace)

CollectThrows(failure, workspace) ==
  LET collector ==
        EVIDENCE_COLLECTORS(IF failure.evidence = Absent \/ failure.evidence.type = ""
                            THEN "manual" ELSE failure.evidence.type)
  IN \/ collector = "Object.prototype"
     \/ /\ collector \in {"collectTestEvidence", "collectSecurityTestEvidence"}
        /\ findTestFileThrows(failure, workspace.tests)

S_runner ==
  <<"v","e","r","i","f","i","e","r","-","r","u","n","n","e","r">>

\* verifyFailure: skipped unless the entry is claimed; verified and
\* verification are undefined on a skipped entry (FALSE and Absent here).
\* The collector is called once and its result bound to evidence.
\* verifyFailure that attempts every entry, whatever its state
verifyFailure_attempts_every_entry(failure, workspace, t) ==
  CHOOSE result \in
    { [failure_id |-> failure.id, status |-> StateOf(failure),
       verification_attempted |-> t, skipped |-> FALSE,
       verification_result |-> evidence, verified |-> evidence.success,
       verification |->
         IF evidence.success
         THEN [method |-> evidence.method, evidence |-> evidence.evidence,
               evidence_hash |-> evidence.evidence_hash,
               verified_by |-> S_runner, verified_at |-> t]
         ELSE Absent] :
      evidence \in {Collect(failure, workspace)} } : TRUE

verifyFailure(failure, workspace, t) ==
  IF failure.status = Absent \/ failure.status.state # "claimed"
  THEN [failure_id |-> failure.id, status |-> StateOf(failure),
        verification_attempted |-> t, skipped |-> TRUE,
        verification_result |-> Absent, verified |-> FALSE,
        verification |-> Absent]
  ELSE CHOOSE result \in
         { [failure_id |-> failure.id, status |-> "claimed",
            verification_attempted |-> t, skipped |-> FALSE,
            verification_result |-> evidence, verified |-> evidence.success,
            verification |->
              IF evidence.success
              THEN [method |-> evidence.method, evidence |-> evidence.evidence,
                    evidence_hash |-> evidence.evidence_hash,
                    verified_by |-> S_runner, verified_at |-> t]
              ELSE Absent] :
           evidence \in {Collect(failure, workspace)} } : TRUE

\* main of run.js without --failure and --output: the report it builds and its
\* exit code; loadJSON has no catch, so an unreadable file is a fault, and so
\* are the JSON text null, a failures value that cannot be iterated, a null
\* entry and a fault in a collector
run_main(file, workspace, strict, t) ==
  IF \/ file = Absent \/ file = Unparseable \/ file = JsonNull
     \/ FailuresKind(file) = "other"
     \/ \E i \in 1..Len(file.failures) :
          \/ file.failures[i] = NullEntry
          \/ /\ file.failures[i].status # Absent
             /\ file.failures[i].status.state = "claimed"
             /\ CollectThrows(file.failures[i], workspace)
  THEN [kind |-> "throw", code |-> 1]
  ELSE CHOOSE out \in
         { LET failed == Cardinality({ i \in 1..Len(results) :
                                         ~results[i].skipped /\ ~results[i].verified })
           IN [kind |-> "report", results |-> results,
               summary |-> [total |-> Len(results),
                            verified |-> Cardinality({ i \in 1..Len(results) :
                                                         results[i].verified }),
                            failed |-> failed,
                            skipped |-> Cardinality({ i \in 1..Len(results) :
                                                        results[i].skipped })],
               code |-> IF strict /\ failed > 0 THEN 1 ELSE 0] :
           results \in { [i \in 1..Len(file.failures) |->
                            verifyFailure(file.failures[i], workspace, t)] } } : TRUE

\* ------------------------------------------------------------------ inputs
S_curl == <<"c","u","r","l">>
S_date == <<"2","0","2","7">>

Users == {Null, S_alice}            \* process.env.USER, Null when unset
Commits == {"null", "c1"}           \* git rev-parse HEAD, "null" outside git
CliCommits == {"null", "c1"}        \* freeze.js --commit, "null" when not given
InGit == {"c1"}                     \* the lifecycle runs inside a git checkout
NoCliCommit == {"null"}

\* Argument vectors of the lifecycle specification.
ClaimArgs ==
  { <<>>, <<S_F001>>, <<S_F009>>, <<S_F001, FlagDesign>>,
    <<S_f001, FlagDesign, S_design, FlagLocation, S_location>> }
VerifyArgs ==
  { <<>>, <<S_F001>>, <<S_F001, FlagEvidence>>, <<S_F001, FlagEvidence, <<>> >>,
    <<S_f001, FlagEvidence, S_testPassed>>,
    <<S_F009, FlagEvidence, S_testPassed>> }
RejectArgs ==
  { <<>>, <<S_F001>>, <<S_F001, FlagReason, S_bypass>>,
    <<S_F009, FlagReason, S_bypass>> }
AcceptRiskArgs ==
  { <<>>,
    <<S_F001, FlagReason, S_bypass, FlagBy, S_agent007>>,
    <<S_F001, FlagReason, S_bypass, FlagBy, S_aliceMail>>,
    <<S_F001, FlagBy, S_aliceMail>>,
    <<S_F001, FlagReason, S_bypass>>,
    <<S_F001, FlagReason, S_bypass, FlagBy, S_daisy>>,
    <<S_F001, FlagReason, S_bypass, FlagBy, S_BotUpper>>,
    <<S_F009, FlagReason, S_bypass, FlagBy, S_aliceMail>> }
DiscoverArgs == { <<>>, << <<>> >>, <<S_race, S_bypass>> }

\* The documents of the lifecycle specification: two well-formed entries.
LifecycleContents ==
  { [version |-> "1.0", feature |-> S_UnnamedFeature,
     failures |-> <<E_F001, E_F002>>] }

\* Argument vectors of the freeze specifications: one run of each command on
\* the first entry.
FreezeClaimArgs == { <<S_F001>> }
FreezeVerifyArgs ==
  { <<S_F001, FlagEvidence, S_testPassed, FlagMethod, S_curl>> }
FreezeRejectArgs == { <<S_F001, FlagReason, S_bypass>> }
FreezeAcceptRiskArgs ==
  { <<S_F001, FlagReason, S_bypass, FlagBy, S_aliceMail, FlagReviewBy, S_date>> }

\* ------------------------------------------------------------------- state
VARIABLES
  report,        \* what the last run of validate.js or run.js produced
  USER,          \* process.env.USER of the shell the commands run in
  spec,          \* .failure-first/failures.json, Absent before init
  discoveries,   \* .failure-first/discoveries.json: the discoveries array
  now,           \* the clock read by new Date()
  running        \* the ffh processes between loadJSON and saveJSON

vars == <<report, USER, spec, discoveries, now, running>>

NoReport == [none |-> TRUE]

\* Two shells in the project directory; neither has a command under way.
Procs == {"first", "second"}
Idle == [phase |-> "idle"]
NotRunning == [p \in Procs |-> Idle]

Init ==
  /\ report = NoReport
  /\ USER \in Users
  /\ spec = Absent
  /\ discoveries = <<>>
  /\ now = 1
  /\ running = NotRunning

Tick ==
  /\ now < MaxClock
  /\ now' = now + 1
  /\ UNCHANGED <<report, USER, spec, discoveries, running>>

RunInit ==
  /\ spec' = commands_init(spec, USER).spec
  /\ UNCHANGED <<report, USER, discoveries, now, running>>

RunFreeze(commits) ==
  /\ \E commit \in commits : spec' = commands_freeze(spec, now, commit).spec
  /\ UNCHANGED <<report, USER, discoveries, now, running>>

RunClaim(argv) ==
  /\ \E args \in argv : spec' = commands_claim(spec, args, USER, now).spec
  /\ UNCHANGED <<report, USER, discoveries, now, running>>

RunVerify(argv) ==
  /\ \E args \in argv : spec' = commands_verify(spec, args, USER, now).spec
  /\ UNCHANGED <<report, USER, discoveries, now, running>>

RunReject(argv) ==
  /\ \E args \in argv : spec' = commands_reject(spec, args, USER, now).spec
  /\ UNCHANGED <<report, USER, discoveries, now, running>>

RunAcceptRisk(argv) ==
  /\ \E args \in argv : spec' = commands_accept_risk(spec, args, now).spec
  /\ UNCHANGED <<report, USER, discoveries, now, running>>

\* discover that also adds the finding to failures.json
RunDiscover_merges(argv, limit) ==
  /\ Len(discoveries) < limit
  /\ \E args \in argv :
       LET r == commands_discover(spec # Absent, discoveries, args, USER, now)
       IN /\ discoveries' = r.ledger
          /\ spec' = IF r.exit = 0
                     THEN [spec EXCEPT !.failures =
                             Append(@, [E_F002 EXCEPT
                                          !.id = r.ledger[Len(r.ledger)].id,
                                          !.title = r.ledger[Len(r.ledger)].description])]
                     ELSE spec
  /\ UNCHANGED <<report, USER, now, running>>

RunDiscover(argv, limit) ==
  /\ Len(discoveries) < limit
  /\ \E args \in argv :
       discoveries' =
         commands_discover(spec # Absent, discoveries, args, USER, now).ledger
  /\ UNCHANGED <<report, USER, spec, now, running>>

\* node freeze.js .failure-first/failures.json [--commit sha]
RunFreezeTool(cliCommits, gitCommits) ==
  /\ \E cliCommit \in cliCommits, gitCommit \in gitCommits :
       spec' = freeze_main(spec, cliCommit, gitCommit, now).spec
  /\ UNCHANGED <<report, USER, discoveries, now, running>>

\* The adversary phase: the author edits failures.json (the file init tells
\* the user to edit) before asking for the freeze.
AdversaryWrite(contents) ==
  /\ spec # Absent
  /\ spec.metadata.frozen_at = NoTime
  /\ \E c \in contents :
       spec' = [spec EXCEPT !.version = c.version,
                            !.metadata.feature = c.feature,
                            !.failures = c.failures]
  /\ UNCHANGED <<report, USER, discoveries, now, running>>

\* A write to failures.json after the freeze that touches the structure of the
\* document: nothing stands between an editor and the file.
StructuralEdits(failures) ==
  { [failures EXCEPT ![1].title = S_title2],
    [failures EXCEPT ![1].severity = "low"],
    [failures EXCEPT ![1].oracle.condition = S_vague1],
    [failures EXCEPT ![1].repro.steps.items = <<>>],
    [failures EXCEPT ![1].evidence.type = "manual"],
    Append(failures, E_F002),
    Tail(failures) }

Structure(failures) ==
  [k \in 1..Len(failures) |-> [failures[k] EXCEPT !.status = Absent]]

StructuralWrite ==
  /\ spec # Absent
  /\ spec.metadata.frozen_at # NoTime
  /\ Structure(spec.failures) = <<E_F001>>
  /\ \E fl \in StructuralEdits(spec.failures) : spec' = [spec EXCEPT !.failures = fl]
  /\ UNCHANGED <<report, USER, discoveries, now, running>>

\* The lifecycle of the entries of a well-formed document.
Commands ==
  \/ RunInit
  \/ RunFreeze(InGit)
  \/ RunFreezeTool(NoCliCommit, InGit)
  \/ RunClaim(ClaimArgs)
  \/ RunVerify(VerifyArgs)
  \/ RunReject(RejectArgs)
  \/ RunAcceptRisk(AcceptRiskArgs)
  \/ RunDiscover(DiscoverArgs, MaxDiscoveries)

Next ==
  \/ Tick
  \/ Commands
  \/ AdversaryWrite(LifecycleContents)

Spec == Init /\ [][Next]_vars

\* Freezing the documents an author may have written, well-formed or not.
FreezeCommands ==
  \/ RunInit
  \/ RunFreeze(InGit)
  \/ RunFreezeTool(NoCliCommit, InGit)
  \/ RunClaim(FreezeClaimArgs)
  \/ RunVerify(FreezeVerifyArgs)
  \/ RunReject(FreezeRejectArgs)
  \/ RunAcceptRisk(FreezeAcceptRiskArgs)
  \/ RunDiscover(DiscoverArgs, MaxDiscoveries)

NextFreeze ==
  \/ Tick
  \/ FreezeCommands
  \/ AdversaryWrite(AuthoredContents)

SpecFreeze == Init /\ [][NextFreeze]_vars

\* The same, with the writes an editor can make to the frozen file.
NextWrite ==
  \/ Tick
  \/ FreezeCommands
  \/ AdversaryWrite({[version |-> "1.0", feature |-> S_UnnamedFeature,
                      failures |-> <<E_F001>>]})
  \/ StructuralWrite

SpecWrite == Init /\ [][NextWrite]_vars

\* The builder phase of the skill: the builder marks the entry it starts on
\* as in_progress in failures.json before it implements the guardrail.
BuilderStart(ids) ==
  /\ spec # Absent
  /\ spec.metadata.frozen_at # NoTime
  /\ \E id \in ids :
       LET k == findFailure(spec, id)
       IN /\ k # 0
          /\ StateOf(spec.failures[k]) = "unaddressed"
          /\ spec' = [spec EXCEPT !.failures[k].status =
                        [StatusOrEmpty(spec.failures[k]) EXCEPT
                           !.state = "in_progress"]]
  /\ UNCHANGED <<report, USER, discoveries, now, running>>

\* completion that also counts a claimed entry as done
COMPLETE_counts_claimed(d) ==
  \A k \in 1..Len(d.failures) :
    d.failures[k].severity = "critical" =>
      /\ d.failures[k].status # Absent
      /\ d.failures[k].status.state \in {"claimed", "verified", "accepted_risk"}

\* Completion requires: all critical failures verified or accepted_risk.
COMPLETE(d) ==
  \A k \in 1..Len(d.failures) :
    d.failures[k].severity = "critical" =>
      /\ d.failures[k].status # Absent
      /\ d.failures[k].status.state \in {"verified", "accepted_risk"}

\* The documents of the builder specification: two critical entries around
\* one of high severity.
ProgressContents ==
  { [version |-> "1.0", feature |-> S_UnnamedFeature,
     failures |-> <<E_F001, E_F002, E_F003>>] }

ProgressIds == {S_F001, S_F003}
ProgressClaimArgs == { <<S_F001>>, <<S_F003, FlagDesign, S_design>> }
ProgressVerifyArgs ==
  { <<S_F001, FlagEvidence, S_testPassed>>, <<S_F003, FlagEvidence, S_testPassed>> }
ProgressRejectArgs == { <<S_F001, FlagReason, S_bypass>> }
ProgressAcceptRiskArgs ==
  { <<S_F003, FlagReason, S_bypass, FlagBy, S_aliceMail>>,
    <<S_F003, FlagReason, S_bypass, FlagBy, S_agent007>> }

ProgressCommands ==
  \/ RunInit
  \/ RunFreeze(InGit)
  \/ RunClaim(ProgressClaimArgs)
  \/ RunVerify(ProgressVerifyArgs)
  \/ RunReject(ProgressRejectArgs)
  \/ RunAcceptRisk(ProgressAcceptRiskArgs)

NextProgress ==
  \/ Tick
  \/ ProgressCommands
  \/ AdversaryWrite(ProgressContents)
  \/ BuilderStart(ProgressIds)

SpecProgress == Init /\ [][NextProgress]_vars

\* The discovery ledger next to a document that is written, frozen and
\* claimed.
LedgerArgs == { <<>>, <<S_race>>, <<S_race, S_bypass>> }

NextLedger ==
  \/ Tick
  \/ RunInit
  \/ AdversaryWrite({[version |-> "1.0", feature |-> S_UnnamedFeature,
                      failures |-> <<E_F001>>]})
  \/ RunFreeze(InGit)
  \/ RunClaim(FreezeClaimArgs)
  \/ RunDiscover(LedgerArgs, MaxLedger)

SpecLedger == Init /\ [][NextLedger]_vars

\* ---------------------------------------------- validate.js run on a file
S_title80 == [i \in 1..80 |-> "x"]
S_vagueMixed == <<"I","t"," ","M","U","S","T"," ","b","e"," ","S","a","f","e">>
S_TitleUpper == toUpperCase(S_title1)

GoodVerification ==
  [method |-> S_ManualVerification, evidence |-> S_testPassed,
   evidence_hash |-> evidence_hash(S_testPassed),
   verified_by |-> S_verifier, verified_at |-> 1]
GoodAcceptance ==
  [reason |-> S_bypass, accepted_by |-> S_alice, accepted_at |-> 1,
   review_by |-> Null]

\* The single departures from a good entry that the checks of validateFailure
\* and lint tell apart.
EntryVariants(e) ==
  { e,
    [e EXCEPT !.id = Null], [e EXCEPT !.id = S_X1], [e EXCEPT !.id = S_f001],
    [e EXCEPT !.title = Null], [e EXCEPT !.title = S_titleLong],
    [e EXCEPT !.title = S_title80], [e EXCEPT !.title = NotAString],
    [e EXCEPT !.severity = ""], [e EXCEPT !.severity = "urgent"],
    [e EXCEPT !.severity = "low"],
    [e EXCEPT !.oracle = Absent], [e EXCEPT !.oracle.condition = Null],
    [e EXCEPT !.oracle.condition = S_vagueMixed],
    [e EXCEPT !.oracle.condition = S_vague3],
    [e EXCEPT !.oracle.condition = NotAString],
    [e EXCEPT !.oracle.falsifiable = "undefined"],
    [e EXCEPT !.oracle.falsifiable = "false"],
    [e EXCEPT !.repro = Absent], [e EXCEPT !.repro.steps.array = FALSE],
    [e EXCEPT !.repro.steps.items = <<>>],
    [e EXCEPT !.repro.expected_if_vulnerable = Null],
    [e EXCEPT !.evidence = Absent], [e EXCEPT !.evidence.type = ""],
    [e EXCEPT !.evidence.type = "bogus"], [e EXCEPT !.evidence.type = "manual"],
    [e EXCEPT !.evidence.criteria = Null],
    [e EXCEPT !.evidence.criteria = S_assert1],
    [e EXCEPT !.evidence.criteria = NotAString],
    [e EXCEPT !.status = Absent], [e EXCEPT !.status = Unaddressed],
    [e EXCEPT !.status = EmptyStatus],
    [e EXCEPT !.status = [EmptyStatus EXCEPT !.state = "bogus"]],
    [e EXCEPT !.status = [EmptyStatus EXCEPT !.state = "rejected"]],
    [e EXCEPT !.status = [EmptyStatus EXCEPT !.state = "verified"]],
    [e EXCEPT !.status =
       [EmptyStatus EXCEPT !.state = "verified",
          !.verification = [GoodVerification EXCEPT !.evidence = Null]]],
    [e EXCEPT !.status =
       [EmptyStatus EXCEPT !.state = "verified",
                           !.verification = GoodVerification]],
    [e EXCEPT !.status = [EmptyStatus EXCEPT !.state = "accepted_risk"]],
    [e EXCEPT !.status =
       [EmptyStatus EXCEPT !.state = "accepted_risk",
          !.risk_acceptance = [GoodAcceptance EXCEPT !.accepted_by = Null]]],
    [e EXCEPT !.status =
       [EmptyStatus EXCEPT !.state = "accepted_risk",
                           !.risk_acceptance = GoodAcceptance]],
    [e EXCEPT !.status =
       [EmptyStatus EXCEPT !.state = "accepted_risk",
          !.risk_acceptance = [GoodAcceptance EXCEPT !.accepted_by = S_agent007]]],
    [e EXCEPT !.ownership = "inherited"],
    [e EXCEPT !.ownership = "inherited", !.inherited_from = S_alice],
    [x \in DOMAIN e \cup {"impact", "detection"} |->
       IF x \in DOMAIN e THEN e[x] ELSE S_bypass] }

GoodMetadata ==
  [feature |-> S_UnnamedFeature, created_by |-> S_alice,
   frozen_at |-> NoTime, frozen_commit |-> "null"]
ValidateDoc(failures) ==
  [version |-> "1.0", metadata |-> GoodMetadata, failures |-> failures]

\* What the file handed to validate.js holds.
ValidateFiles ==
  { ValidateDoc(<<v>>) : v \in EntryVariants(E_F001) }
  \cup { ValidateDoc(<<E_F001, v>>) : v \in EntryVariants(E_F002) }
  \cup { ValidateDoc(<<>>), ValidateDoc(<<E_F001, E_F001>>),
         ValidateDoc(<<E_F001, [E_F002 EXCEPT !.id = S_F001]>>),
         ValidateDoc(<<E_F001, E_F002, [E_F003 EXCEPT !.id = S_F002]>>),
         ValidateDoc(<<E_F001, [E_F002 EXCEPT !.title = S_TitleUpper]>>),
         ValidateDoc(<<E_F001, NullEntry>>),
         [ValidateDoc(<<E_F001>>) EXCEPT !.version = ""],
         [ValidateDoc(<<E_F001>>) EXCEPT !.version = "2.0"],
         [ValidateDoc(<<E_F001>>) EXCEPT !.metadata.feature = Null],
         [ValidateDoc(<<E_F001>>) EXCEPT !.metadata.created_by = Null],
         [ValidateDoc(<<E_F001>>) EXCEPT !.metadata = Absent],
         [ValidateDoc(<<E_F001>>) EXCEPT !.metadata.frozen_at = 1],
         [version |-> "1.0", metadata |-> GoodMetadata, failures |-> <<>>,
          failures_kind |-> "missing"],
         [version |-> "1.0", metadata |-> GoodMetadata, failures |-> <<>>,
          failures_kind |-> "other"],
         Unparseable, JsonNull, Absent }

LintModes == {FALSE, TRUE}

InitValidate ==
  /\ report = NoReport
  /\ USER \in Users
  /\ spec \in ValidateFiles
  /\ discoveries = <<>>
  /\ now = 1
  /\ running = NotRunning

\* node validate.js <file> [--lint]
RunValidate(lintModes) ==
  /\ \E lintMode \in lintModes : report' = validate_main(spec, lintMode)
  /\ UNCHANGED <<USER, spec, discoveries, now, running>>

NextValidate == RunValidate(LintModes)

SpecValidate == InitValidate /\ [][NextValidate]_vars

\* ================================================================== claims
Entries(d) == IF d = Absent THEN {} ELSE 1..Len(d.failures)
Frozen(d) == d # Absent /\ d.metadata.frozen_at # NoTime
NonEmptyText(s) == s # Null /\ Len(s) > 0
HasState(d, k, state) == k \in Entries(d) /\ StateOf(d.failures[k]) = state

\* C1: every verified entry carries a verification record with non-empty
\* evidence, and an entry becomes verified only by a verify command run while
\* the entry was claimed.
C1_VerifiedHasEvidenceFromClaimed ==
  [][\A k \in Entries(spec') :
       HasState(spec', k, "verified") =>
         /\ spec'.failures[k].status.verification # Absent
         /\ NonEmptyText(spec'.failures[k].status.verification.evidence)
         /\ \/ HasState(spec, k, "verified")
            \/ /\ HasState(spec, k, "claimed")
               /\ \E args \in VerifyArgs :
                    /\ commands_verify(spec, args, USER, now).exit = 0
                    /\ spec' = commands_verify(spec, args, USER, now).spec]_vars

C1_Witness ==
  \E k \in Entries(spec) :
    /\ HasState(spec, k, "verified")
    /\ spec.failures[k].status.verification.evidence = S_testPassed

\* C2: once an entry is verified, no command (claim, verify, reject,
\* accept-risk, freeze, discover) changes its state.
C2_VerifiedIsTerminal ==
  [][Commands =>
       \A k \in Entries(spec) :
         HasState(spec, k, "verified") => HasState(spec', k, "verified")]_vars

\* C3: once an entry is accepted_risk, no command changes its state; a later
\* claim on it is rejected.
C3_AcceptedRiskIsTerminal ==
  [][Commands =>
       \A k \in Entries(spec) :
         HasState(spec, k, "accepted_risk") =>
           HasState(spec', k, "accepted_risk")]_vars

\* C4: for every verified entry the identity in verification.verified_by
\* differs from the identity in guardrail.implemented_by.
C4_BuilderCannotCertify ==
  \A k \in Entries(spec) :
    HasState(spec, k, "verified") =>
      /\ spec.failures[k].status.guardrail # Absent
      /\ spec.failures[k].status.verification.verified_by
           # spec.failures[k].status.guardrail.implemented_by

\* C5: every accepted_risk entry has a risk_acceptance with a non-empty reason
\* and an accepted_by containing none of agent, bot, ai, claude, gpt, assistant
\* in any letter case; accept-risk by "agent-007" is rejected and by
\* "alice@example.com" succeeds.
AutomatedSubstrings ==
  { <<"a","g","e","n","t">>, <<"b","o","t">>, <<"a","i">>,
    <<"c","l","a","u","d","e">>, <<"g","p","t">>,
    <<"a","s","s","i","s","t","a","n","t">> }

LooksHuman(s) ==
  \A p \in AutomatedSubstrings : ~includes(toLowerCase(s), p)

AcceptedBy(d, k) == d.failures[k].status.risk_acceptance.accepted_by

C5_AcceptedRiskByHuman ==
  /\ \A k \in Entries(spec) :
       HasState(spec, k, "accepted_risk") =>
         /\ spec.failures[k].status.risk_acceptance # Absent
         /\ NonEmptyText(spec.failures[k].status.risk_acceptance.reason)
         /\ NonEmptyText(AcceptedBy(spec, k))
         /\ LooksHuman(AcceptedBy(spec, k))
  /\ spec # Absent =>
       commands_accept_risk(
         spec, <<S_F001, FlagReason, S_bypass, FlagBy, S_agent007>>, now)
       = Exit1(spec)
  /\ findFailure(IF spec = Absent THEN [failures |-> <<>>] ELSE spec, S_F001) # 0 =>
       LET r == commands_accept_risk(
                  spec, <<S_F001, FlagReason, S_bypass, FlagBy, S_aliceMail>>, now)
           k == findFailure(spec, S_F001)
       IN /\ r.exit = 0
          /\ HasState(r.spec, k, "accepted_risk")
          /\ AcceptedBy(r.spec, k) = S_aliceMail

C5_Witness ==
  \E k \in Entries(spec) :
    /\ HasState(spec, k, "accepted_risk")
    /\ AcceptedBy(spec, k) = S_aliceMail

\* C6: once metadata.frozen_at is set no step clears or changes it or the
\* frozen commit, and both freeze entry points reject a frozen document and
\* leave it as it is.
C6_FreezeIsOneWay ==
  [][Frozen(spec) =>
       /\ spec' # Absent
       /\ spec'.metadata.frozen_at = spec.metadata.frozen_at
       /\ spec'.metadata.frozen_commit = spec.metadata.frozen_commit
       /\ \A commit \in Commits : commands_freeze(spec, now, commit) = Exit1(spec)
       /\ \A cliCommit \in CliCommits, gitCommit \in Commits :
            freeze_main(spec, cliCommit, gitCommit, now) = Exit1(spec)]_vars

C6_Witness ==
  /\ Frozen(spec)
  /\ now > spec.metadata.frozen_at
  /\ \E k \in Entries(spec) : HasState(spec, k, "claimed")

\* C7: in a document that a freeze accepts, every entry passes the structural
\* checks of the validator (validateFailure reports no error for it).
C7_FreezeOnlyValidDocuments ==
  [][(spec # Absent /\ ~Frozen(spec) /\ Frozen(spec'))
       => validateFailures(spec.failures, 1) = <<>>]_vars

\* C8: no freeze entry point sets frozen_at on a document whose version is not
\* "1.0", whose metadata.feature is missing, or which has no entries.
C8_FreezePreconditions ==
  [][(/\ spec # Absent
      /\ ~Frozen(spec)
      /\ \/ spec.version # "1.0"
         \/ ~NonEmptyText(spec.metadata.feature)
         \/ Len(spec.failures) = 0)
     => ~Frozen(spec')]_vars

\* C9: after the freeze, a write that changes an entry's title, severity,
\* oracle, repro or evidence requirement, or adds or removes an entry, does
\* not go through.
C9_FrozenStructureImmutable ==
  [][Frozen(spec) =>
       /\ spec' # Absent
       /\ Structure(spec'.failures) = Structure(spec.failures)]_vars

\* C10: no entry leaves the unaddressed state while the document is unfrozen.
C10_ScopeFixedBeforeImplementation ==
  (spec # Absent /\ ~Frozen(spec)) =>
    \A k \in Entries(spec) : HasState(spec, k, "unaddressed")

\* C11: an entry reaches claimed only from in_progress: every entry that is
\* claimed after a step was in_progress before it, or was already claimed and
\* is left as it was (a claim on an unaddressed, claimed, verified or
\* accepted_risk entry is rejected).
C11_ClaimedOnlyFromInProgress ==
  [][\A k \in Entries(spec') :
       (k \in Entries(spec) /\ HasState(spec', k, "claimed")) =>
         \/ HasState(spec, k, "in_progress")
         \/ spec'.failures[k] = spec.failures[k]]_vars

\* C12: a claim for which no design or no location is supplied, and none is
\* recorded on the entry, is rejected and leaves the document as it was; an
\* accepted claim stamps implemented_by and implemented_at.
C12_ClaimNeedsGuardrail ==
  spec # Absent =>
    \A args \in ClaimArgs :
      (Len(args) > 0 /\ findFailure(spec, args[1]) # 0) =>
        LET k == findFailure(spec, args[1])
            r == commands_claim(spec, args, USER, now)
            opt == Options(args, {FlagDesign, FlagLocation})
            old == StatusOrEmpty(spec.failures[k]).guardrail
            haveDesign ==
              Truthy(opt[FlagDesign]) \/ (old # Absent /\ Truthy(old.design))
            haveLocation ==
              Truthy(opt[FlagLocation]) \/ (old # Absent /\ Truthy(old.location))
        IN IF haveDesign /\ haveLocation
           THEN /\ r.exit = 0
                /\ HasState(r.spec, k, "claimed")
                /\ r.spec.failures[k].status.guardrail.implemented_by
                     = Or(USER, S_builder)
                /\ r.spec.failures[k].status.guardrail.implemented_at = now
           ELSE r = Exit1(spec)

\* C13: verify on a claimed entry with non-empty evidence E makes the entry
\* verified with verification.evidence = E and stamps verified_by and
\* verified_at; verify without evidence, with empty evidence, or on an entry
\* in another state is rejected and leaves the document as it was.
C13_VerifyContract ==
  spec # Absent =>
    \A args \in VerifyArgs :
      LET r == commands_verify(spec, args, USER, now)
          k == IF Len(args) = 0 THEN 0 ELSE findFailure(spec, args[1])
          E == IF Len(args) >= 3 /\ args[2] = FlagEvidence THEN args[3] ELSE Null
      IN IF k # 0 /\ HasState(spec, k, "claimed") /\ NonEmptyText(E)
         THEN /\ r.exit = 0
              /\ HasState(r.spec, k, "verified")
              /\ r.spec.failures[k].status.verification.evidence = E
              /\ r.spec.failures[k].status.verification.verified_by
                   = Or(USER, S_verifier)
              /\ r.spec.failures[k].status.verification.verified_at = now
         ELSE r = Exit1(spec)

C13_Witness ==
  \E k \in Entries(spec) :
    /\ HasState(spec, k, "verified")
    /\ spec.failures[k].status.verification.verified_by = Or(USER, S_verifier)
    /\ spec.failures[k].status.verification.verified_at = now
    /\ spec.failures[k].status.verification.method = S_ManualVerification

C15_RejectedLeavesNoTrace ==
  /\ \A args \in ClaimArgs :
       LET r == commands_claim(spec, args, USER, now)
       IN /\ r.exit = 1 => r.spec = spec
          /\ (Len(args) = 0 \/ args[1] = S_F009) => r.exit = 1
  /\ \A args \in VerifyArgs :
       LET r == commands_verify(spec, args, USER, now)
       IN /\ r.exit = 1 => r.spec = spec
          /\ (Len(args) < 3 \/ args[1] = S_F009 \/ ~Truthy(args[3])) => r.exit = 1
          /\ (\A k \in Entries(spec) : ~HasState(spec, k, "claimed")) => r.exit = 1
  /\ \A args \in RejectArgs :
       LET r == commands_reject(spec, args, USER, now)
       IN /\ r.exit = 1 => r.spec = spec
          /\ (Len(args) < 3 \/ args[1] = S_F009) => r.exit = 1
          /\ (\A k \in Entries(spec) : ~HasState(spec, k, "claimed")) => r.exit = 1
  /\ \A args \in AcceptRiskArgs :
       LET r == commands_accept_risk(spec, args, now)
       IN /\ r.exit = 1 => r.spec = spec
          /\ (Len(args) < 5 \/ args[1] = S_F009) => r.exit = 1
          /\ (Len(args) = 5 /\ args[5] \in {S_agent007, S_daisy, S_BotUpper})
               => r.exit = 1
  /\ \A commit \in Commits :
       LET r == commands_freeze(spec, now, commit)
       IN /\ r.exit = 1 => r.spec = spec
          /\ (Frozen(spec) \/ Entries(spec) = {}) => r.exit = 1
  /\ \A cliCommit \in CliCommits, gitCommit \in Commits :
       LET r == freeze_main(spec, cliCommit, gitCommit, now)
       IN /\ r.exit = 1 => r.spec = spec
          /\ (Frozen(spec) \/ Entries(spec) = {}) => r.exit = 1
  /\ \A args \in DiscoverArgs :
       LET r == commands_discover(spec # Absent, discoveries, args, USER, now)
       IN /\ r.exit = 1 => r.ledger = discoveries
          /\ (spec = Absent \/ Join(args, 1) = <<>>) => r.exit = 1

C15_Witness ==
  /\ Frozen(spec)
  /\ HasState(spec, 1, "claimed")
  /\ Len(discoveries) = 1
  /\ commands_accept_risk(
       spec, <<S_F001, FlagReason, S_bypass, FlagBy, S_BotUpper>>, now).exit = 1
  /\ commands_verify(spec, <<S_F001, FlagEvidence, <<>> >>, USER, now).exit = 1
  /\ commands_freeze(spec, now, "c1").exit = 1

\* C16: claim, verify, reject and accept-risk on entry X, and freeze and
\* discover, leave unchanged the number and order of the entries, every
\* entry's id, title, severity, oracle, repro and evidence requirement, and
\* the status of every entry other than X.
FrameKept(d, r, x) ==
  /\ r # Absent
  /\ Len(r.failures) = Len(d.failures)
  /\ Structure(r.failures) = Structure(d.failures)
  /\ \A j \in Entries(d) : j # x => r.failures[j].status = d.failures[j].status

AddressedIndex(d, args) == IF Len(args) = 0 THEN 0 ELSE findFailure(d, args[1])

CommandsKeepFrame ==
  spec # Absent =>
    /\ \A args \in ClaimArgs \cup {<<S_F002, FlagDesign, S_design>>} :
         FrameKept(spec, commands_claim(spec, args, USER, now).spec,
                   AddressedIndex(spec, args))
    /\ \A args \in VerifyArgs \cup {<<S_F002, FlagEvidence, S_testPassed>>} :
         FrameKept(spec, commands_verify(spec, args, USER, now).spec,
                   AddressedIndex(spec, args))
    /\ \A args \in RejectArgs \cup {<<S_F002, FlagReason, S_bypass>>} :
         FrameKept(spec, commands_reject(spec, args, USER, now).spec,
                   AddressedIndex(spec, args))
    /\ \A args \in AcceptRiskArgs
           \cup {<<S_F002, FlagReason, S_bypass, FlagBy, S_aliceMail>>} :
         FrameKept(spec, commands_accept_risk(spec, args, now).spec,
                   AddressedIndex(spec, args))
    /\ \A commit \in Commits :
         FrameKept(spec, commands_freeze(spec, now, commit).spec, 0)
    /\ \A cliCommit \in CliCommits, gitCommit \in Commits :
         FrameKept(spec, freeze_main(spec, cliCommit, gitCommit, now).spec, 0)

C16_OnlyAddressedStatusChanges ==
  /\ []CommandsKeepFrame
  /\ [][discoveries' # discoveries => spec' = spec]_vars

C16_Witness ==
  /\ Frozen(spec)
  /\ Len(spec.failures) = 2
  /\ HasState(spec, 1, "verified")
  /\ spec.failures[1].status.rejection # Absent
  /\ spec.failures[2] = E_F002
  /\ Structure(spec.failures) = Structure(<<E_F001, E_F002>>)

\* C17: transition history is appended, not overwritten: the guardrail of a
\* claim and the rejection record of a rejection, once written to a frozen
\* document, are still in the document after every later step (after claim,
\* reject, claim, reject both guardrails and both rejections are present).
C17_HistoryIsAppended ==
  [][Frozen(spec) =>
       \A k \in Entries(spec) :
         spec.failures[k].status # Absent =>
           /\ spec.failures[k].status.guardrail # Absent =>
                spec'.failures[k].status.guardrail
                  = spec.failures[k].status.guardrail
           /\ spec.failures[k].status.rejection # Absent =>
                spec'.failures[k].status.rejection
                  = spec.failures[k].status.rejection]_vars

\* C18: an entry carries a verification record if and only if its state is
\* verified, and a risk_acceptance record if and only if its state is
\* accepted_risk.
C18_RecordsMatchState ==
  \A k \in Entries(spec) :
    LET st == StatusOrEmpty(spec.failures[k])
    IN /\ st.verification # Absent <=> HasState(spec, k, "verified")
       /\ st.risk_acceptance # Absent <=> HasState(spec, k, "accepted_risk")

\* C19: COMPLETE holds exactly when every critical entry is verified or
\* accepted_risk. It becomes true only by a successful verify or accept-risk;
\* where it holds with a critical entry present, every critical entry carries
\* the verification with non-empty evidence or the risk acceptance by a
\* non-automated identity that made it so; it is false while a critical entry
\* is unaddressed, in_progress or claimed.
Critical(d) == { k \in Entries(d) : d.failures[k].severity = "critical" }

Addressed(d, k) ==
  \/ /\ HasState(d, k, "verified")
     /\ d.failures[k].status.verification # Absent
     /\ NonEmptyText(d.failures[k].status.verification.evidence)
  \/ /\ HasState(d, k, "accepted_risk")
     /\ d.failures[k].status.risk_acceptance # Absent
     /\ NonEmptyText(AcceptedBy(d, k))
     /\ LooksHuman(AcceptedBy(d, k))

CompleteMeansAddressed ==
  spec # Absent =>
    /\ COMPLETE(spec) <=>
         \A k \in Critical(spec) :
           HasState(spec, k, "verified") \/ HasState(spec, k, "accepted_risk")
    /\ COMPLETE(spec) => \A k \in Critical(spec) : Addressed(spec, k)
    /\ (\E k \in Critical(spec) :
          \/ HasState(spec, k, "unaddressed")
          \/ HasState(spec, k, "in_progress")
          \/ HasState(spec, k, "claimed")) => ~COMPLETE(spec)

C19_CompleteOnlyThroughOperations ==
  /\ []CompleteMeansAddressed
  /\ [][(/\ spec # Absent
          /\ Critical(spec) # {}
          /\ ~COMPLETE(spec)
          /\ COMPLETE(spec')) =>
           \E k \in Critical(spec) :
             /\ ~Addressed(spec, k)
             /\ Addressed(spec', k)
             /\ \/ /\ HasState(spec, k, "claimed")
                   /\ HasState(spec', k, "verified")
                   /\ spec'.failures[k].status.verification.verified_at = now
                \/ /\ HasState(spec', k, "accepted_risk")
                   /\ spec'.failures[k].status.risk_acceptance.accepted_at = now]_vars

C19_Witness ==
  /\ spec # Absent
  /\ Cardinality(Critical(spec)) = 2
  /\ COMPLETE(spec)
  /\ HasState(spec, 1, "verified")
  /\ HasState(spec, 3, "accepted_risk")
  /\ HasState(spec, 2, "unaddressed")

\* C20: the n-th successful discover appends exactly one entry with id "D"
\* followed by n zero-padded to three digits and disposition pending; the
\* ledger's ids are pairwise distinct and are D001, D002, ... in insertion
\* order, and no step changes or removes an entry of the ledger.
DigitChars == <<"0","1","2","3","4","5","6","7","8","9">>
SequentialId(n) ==
  <<"D", DigitChars[((n \div 100) % 10) + 1], DigitChars[((n \div 10) % 10) + 1],
    DigitChars[(n % 10) + 1]>>

LedgerIsSequential ==
  /\ \A i \in 1..Len(discoveries) :
       /\ discoveries[i].id = SequentialId(i)
       /\ discoveries[i].disposition = "pending"
  /\ \A i, j \in 1..Len(discoveries) :
       i # j => discoveries[i].id # discoveries[j].id
  /\ \A args \in LedgerArgs :
       LET r == commands_discover(spec # Absent, discoveries, args, USER, now)
       IN r.exit = 0 =>
            /\ Len(r.ledger) = Len(discoveries) + 1
            /\ SubSeq(r.ledger, 1, Len(discoveries)) = discoveries
            /\ r.ledger[Len(r.ledger)].id = SequentialId(Len(discoveries) + 1)
            /\ r.ledger[Len(r.ledger)].disposition = "pending"
  /\ \A n \in {9, 10, 99, 100, 999} : DiscoveryId(n) = SequentialId(n)

C20_LedgerIsAppendOnly ==
  /\ []LedgerIsSequential
  /\ [][/\ Len(discoveries') \in {Len(discoveries), Len(discoveries) + 1}
        /\ SubSeq(discoveries', 1, Len(discoveries)) = discoveries]_vars

C20_Witness ==
  /\ Len(discoveries) = 3
  /\ discoveries[3].id = <<"D","0","0","3">>
  /\ discoveries[1].description # discoveries[3].description
  /\ Frozen(spec)

\* C21: discoveries never merge into the entry list: a step that writes the
\* ledger leaves the failure document as it was, no entry of the document
\* carries the id or the description of a discovery, and every discovery
\* keeps the disposition pending.
NothingMerged ==
  \A i \in 1..Len(discoveries) :
    /\ discoveries[i].disposition = "pending"
    /\ \A k \in Entries(spec) :
         /\ spec.failures[k].id # discoveries[i].id
         /\ spec.failures[k].title # discoveries[i].description

C21_DiscoveriesNeverMerge ==
  /\ []NothingMerged
  /\ [][/\ discoveries' # discoveries => spec' = spec
        /\ (spec # Absent /\ Frozen(spec)) =>
             Len(spec'.failures) = Len(spec.failures)]_vars

C21_Witness ==
  /\ Len(discoveries) = 2
  /\ discoveries[2].discovered_at > spec.metadata.frozen_at
  /\ Frozen(spec)
  /\ HasState(spec, 1, "claimed")

\* C27: an assertion never satisfies verification: a verify whose evidence is
\* only a judgment such as "looks correct", "seems fine", "appears to work"
\* or "should work" is rejected, and no verified entry rests on one.
C27_AssertionNeverVerifies ==
  \A k \in Entries(spec) :
    /\ HasState(spec, k, "claimed") =>
         \A judgment \in {S_assert1, S_assert2, S_assert3, S_assert4} :
           commands_verify(spec, <<spec.failures[k].id, FlagEvidence, judgment>>,
                           USER, now) = Exit1(spec)
    /\ HasState(spec, k, "verified") =>
         spec.failures[k].status.verification.evidence
           \notin {S_assert1, S_assert2, S_assert3, S_assert4}

\* --------------------------------------------- run.js run on a workspace
S_aJs == <<"a",".","j","s">>
S_aJsLine == <<"a",".","j","s",":","2">>
S_aJsEmptyRange == <<"a",".","j","s",":","5","-","9">>
LongText == [i \in 1..(MaxEvidence + 1) |-> "x"]

Claimed(e, location) ==
  [e EXCEPT !.status =
     [EmptyStatus EXCEPT !.state = "claimed",
        !.guardrail = [design |-> S_design, location |-> location,
                       implemented_by |-> S_builder, implemented_at |-> 1]]]
OfType(e, type) == [e EXCEPT !.evidence.type = type]

\* The entries handed to the runner: one per evidence type and location the
\* collectors tell apart.
RunnerEntries ==
  { Claimed(OfType(E_F001, type), S_location) :
      type \in {"unit_test", "log_search", "security_test", "manual",
                "manual_test", "", "bogus", "constructor", "toString",
                "__proto__"} }
  \cup { Claimed(OfType(E_F001, "code_review"), location) :
           location \in {S_location, S_aJsLine, S_aJsEmptyRange, S_aJs,
                         P_external, P_external \o LongText, S_NotSpecified,
                         Null} }
  \cup { Claimed([E_F001 EXCEPT !.evidence = Absent], S_location),
         Claimed([E_F001 EXCEPT !.id = Null], S_location),
         [x \in DOMAIN E_F001 \cup {"success"} |->
            IF x = "success" THEN TRUE
            ELSE Claimed(OfType(E_F001, "constructor"), S_location)[x]],
         E_F001, E_F002,
         [E_F001 EXCEPT !.status = [EmptyStatus EXCEPT !.state = "rejected"]] }

RunnerFiles ==
  { ValidateDoc(<<f>>) : f \in RunnerEntries }
  \cup { ValidateDoc(<<Claimed(E_F001, S_location), E_F002>>),
         Unparseable }

\* What spawnSync returns for the test file.
TestRuns ==
  { [status |-> 0, stdout |-> S_testPassed, stderr |-> <<>>],
    [status |-> 0, stdout |-> <<>>, stderr |-> <<>>],
    [status |-> 0, stdout |-> LongText, stderr |-> S_race],
    [status |-> 1, stdout |-> <<>>, stderr |-> S_bypass],
    [status |-> NoStatus, stdout |-> Null, stderr |-> Null] }

SourceFiles ==
  { [path |-> S_aJs, readable |-> TRUE, lines |-> lines] :
      lines \in { <<S_design, S_cond, S_step>>, << <<>> >>, <<LongText, S_cond>>,
                  [i \in 1..12 |-> S_design] } }
  \cup { [path |-> S_aJs, readable |-> FALSE, lines |-> <<>>],
         \* a directory named external: it exists, readFileSync fails on it
         [path |-> P_external, readable |-> FALSE, lines |-> <<>>] }

\* The project roots the runner is pointed at.
Workspaces ==
  { [tests |-> {P_testDir \o S_f001 \o P_testJs}, run |-> r, source |-> Absent] :
      r \in TestRuns }
  \cup { [tests |-> {}, run |-> CHOOSE r \in TestRuns : r.status = 1,
          source |-> f] : f \in SourceFiles }
  \cup { [tests |-> {}, run |-> CHOOSE r \in TestRuns : r.status = 1,
          source |-> Absent],
         [tests |-> {P_testDir \o S_criteria \o P_js},
          run |-> CHOOSE r \in TestRuns : r.status = 0 /\ r.stdout = S_testPassed,
          source |-> Absent] }

InitCollect ==
  /\ report = NoReport
  /\ USER \in Users
  /\ spec \in RunnerFiles
  /\ discoveries = <<>>
  /\ now = 1
  /\ running = NotRunning

\* node run.js <file> [--root <dir>] [--strict]
RunVerifier(workspaces, stricts) ==
  /\ \E workspace \in workspaces, strict \in stricts :
       report' = run_main(spec, workspace, strict, now)
  /\ UNCHANGED <<USER, spec, discoveries, now, running>>

NextCollect == RunVerifier(Workspaces, BOOLEAN)

SpecCollect == InitCollect /\ [][NextCollect]_vars

\* ------------------------------------------- builder's priority order
\* README "Prioritization": the weights and the score.
\* SeverityWeight with steps no larger than the other terms can make up
SeverityWeight_flat == [critical |-> 1, high |-> 1, medium |-> 1, low |-> 1]
SeverityWeight == [critical |-> 4, high |-> 3, medium |-> 2, low |-> 1]
LikelihoodWeight == [high |-> 3, medium |-> 2, low |-> 1]
BlastRadiusWeight == [system |-> 3, service |-> 2, component |-> 1]
VerificationEaseWeight == [trivial |-> 3, moderate |-> 2, hard |-> 1]

\* PRIORITY with the verification ease added instead of subtracted
PRIORITY_adds_ease(f) ==
  SeverityWeight[f.severity] * 1000 + LikelihoodWeight[f.likelihood] * 100
  + BlastRadiusWeight[f.blast_radius] * 10
  + VerificationEaseWeight[f.verification_ease] * 5
PRIORITY(f) ==
  SeverityWeight[f.severity] * 1000 + LikelihoodWeight[f.likelihood] * 100
  + BlastRadiusWeight[f.blast_radius] * 10
  - VerificationEaseWeight[f.verification_ease] * 5

\* An entry with the optional attributes the score reads.
Rated(e, severity, likelihood, blast_radius, verification_ease) ==
  [x \in DOMAIN e \cup {"likelihood", "blast_radius", "verification_ease"} |->
     CASE x = "severity" -> severity
       [] x = "likelihood" -> likelihood
       [] x = "blast_radius" -> blast_radius
       [] x = "verification_ease" -> verification_ease
       [] OTHER -> e[x]]
RatedEntries(e) ==
  { Rated(e, s, l, b, v) :
      s \in DOMAIN SeverityWeight, l \in DOMAIN LikelihoodWeight,
      b \in DOMAIN BlastRadiusWeight, v \in DOMAIN VerificationEaseWeight }

InitPriority ==
  /\ report = NoReport
  /\ USER \in Users
  /\ spec \in { ValidateDoc(<<e1, e2>>) :
                  e1 \in RatedEntries(E_F001), e2 \in RatedEntries(E_F002) }
  /\ discoveries = <<>>
  /\ now = 1
  /\ running = NotRunning

\* BuilderOrders with the lower score first
BuilderOrders_ascending ==
  /\ \E order \in {<<1, 2>>, <<2, 1>>} :
       /\ PRIORITY(spec.failures[order[1]]) <= PRIORITY(spec.failures[order[2]])
       /\ report' = [kind |-> "order", order |-> order,
                     scores |-> [i \in 1..2 |-> PRIORITY(spec.failures[i])]]
  /\ UNCHANGED <<USER, spec, discoveries, now, running>>

\* The builder lists the entries in priority order, the higher score first;
\* the documents say nothing on the order of two entries of the same score.
BuilderOrders ==
  /\ \E order \in {<<1, 2>>, <<2, 1>>} :
       /\ PRIORITY(spec.failures[order[1]]) >= PRIORITY(spec.failures[order[2]])
       /\ report' = [kind |-> "order", order |-> order,
                     scores |-> [i \in 1..2 |-> PRIORITY(spec.failures[i])]]
  /\ UNCHANGED <<USER, spec, discoveries, now, running>>

NextPriority == BuilderOrders

SpecPriority == InitPriority /\ [][NextPriority]_vars

\* ================================================= claims on validate.js
\* The conditions on a validated file that C22 lists, read off the file.
IsDocument(file) == file # Absent /\ file # Unparseable /\ file # JsonNull
Reported == report # NoReport
ReportedValid == Reported /\ report.kind = "result" /\ report.errors = <<>>

ListedDocumentFields(d) ==
  /\ IsDocument(d)
  /\ d.version = "1.0"
  /\ d.metadata # Absent
  /\ NonEmptyText(d.metadata.feature)
  /\ NonEmptyText(d.metadata.created_by)
  /\ FailuresKind(d) = "array"

ListedEntryFields(f) ==
  /\ f # NullEntry
  /\ f.id # Null
  /\ \E a, b, c \in Digits : f.id = <<"F", a, b, c>>
  /\ NonEmptyText(f.title)
  /\ (f.title # NotAString => Len(f.title) <= 80)
  /\ f.severity \in {"critical", "high", "medium", "low"}
  /\ f.oracle # Absent
  /\ NonEmptyText(f.oracle.condition)
  /\ f.oracle.falsifiable \in {"true", "false"}
  /\ \A p \in {S_vague1, S_vague2, S_vague3} :
       ~includes(toLowerCase(f.oracle.condition), p)
  /\ f.repro # Absent
  /\ f.repro.steps.array
  /\ f.repro.steps.items # <<>>
  /\ NonEmptyText(f.repro.expected_if_vulnerable)
  /\ f.evidence # Absent
  /\ f.evidence.type \in Range(VALID_EVIDENCE_TYPES)
  /\ NonEmptyText(f.evidence.criteria)

StatusDependentFields(f) ==
  /\ (f.status # Absent /\ f.status.state = "verified") =>
       /\ f.status.verification # Absent
       /\ NonEmptyText(f.status.verification.evidence)
  /\ (f.status # Absent /\ f.status.state = "accepted_risk") =>
       /\ f.status.risk_acceptance # Absent
       /\ NonEmptyText(f.status.risk_acceptance.accepted_by)
  /\ f.ownership = "inherited" => NonEmptyText(f.inherited_from)

StatusStateKnown(f) ==
  f.status # Absent =>
    f.status.state \in {"unaddressed", "in_progress", "claimed", "verified",
                        "rejected", "accepted_risk"}

C23_ValidHasDistinctIds ==
  ReportedValid =>
    /\ \A i \in 1..Len(spec.failures) :
         \E a, b, c \in Digits : spec.failures[i].id = <<"F", a, b, c>>
    /\ \A i, j \in 1..Len(spec.failures) :
         i # j => spec.failures[i].id # spec.failures[j].id

\* C24: validate never throws or aborts: for any input, malformed ones
\* included, it returns a result with its errors and warnings lists.
C24_ValidateAlwaysReturns ==
  Reported =>
    /\ report.kind = "result"
    /\ report.errors \in Seq(STRING)
    /\ report.warnings \in Seq(STRING)

\* ============================================ claims on the priority order
Rating(f) == <<f.severity, f.likelihood, f.blast_radius, f.verification_ease>>
Ordered == Reported /\ report.kind = "order"

\* C29: the priority score is severity_w*1000 + likelihood_w*100 +
\* blast_radius_w*10 - verification_ease_w*5 with the stated weights:
\* {critical, high, system, hard} scores 4325, {low, low, component, trivial}
\* scores 1095, and the former sorts first.
C29_PriorityScore ==
  Ordered =>
    /\ \A i \in 1..2 :
         LET f == spec.failures[i]
             sev == CASE f.severity = "critical" -> 4 [] f.severity = "high" -> 3
                      [] f.severity = "medium" -> 2 [] f.severity = "low" -> 1
             lik == CASE f.likelihood = "high" -> 3 [] f.likelihood = "medium" -> 2
                      [] f.likelihood = "low" -> 1
             rad == CASE f.blast_radius = "system" -> 3
                      [] f.blast_radius = "service" -> 2
                      [] f.blast_radius = "component" -> 1
             eas == CASE f.verification_ease = "trivial" -> 3
                      [] f.verification_ease = "moderate" -> 2
                      [] f.verification_ease = "hard" -> 1
         IN /\ report.scores[i] = sev * 1000 + lik * 100 + rad * 10 - eas * 5
            /\ Rating(f) = <<"critical", "high", "system", "hard">> =>
                 report.scores[i] = 4325
            /\ Rating(f) = <<"low", "low", "component", "trivial">> =>
                 report.scores[i] = 1095
    /\ \A i, j \in 1..2 :
         (/\ Rating(spec.failures[i]) = <<"critical", "high", "system", "hard">>
          /\ Rating(spec.failures[j]) = <<"low", "low", "component", "trivial">>)
         => report.order = <<i, j>>

C29_Witness ==
  /\ Ordered
  /\ Rating(spec.failures[1]) = <<"low", "low", "component", "trivial">>
  /\ Rating(spec.failures[2]) = <<"critical", "high", "system", "hard">>
  /\ report.order = <<2, 1>>
  /\ report.scores = <<1095, 4325>>

\* ====================================================== claims on run.js
DispatchedAutomatically ==
  {"unit_test", "integration_test", "e2e_test", "fuzz", "load_test",
   "code_review", "security_test", "timing_analysis", "log_analysis",
   "log_search", "log_inspection", "network_capture", "header_inspection",
   "traffic_analysis", "token_inspection"}
ClaimedEntries(file) ==
  IF ~IsDocument(file) THEN {}
  ELSE { i \in 1..Len(file.failures) :
           /\ file.failures[i] # NullEntry
           /\ file.failures[i].status # Absent
           /\ file.failures[i].status.state = "claimed" }
Results == IF Reported /\ report.kind = "report" THEN report.results ELSE <<>>
Attempted == { i \in 1..Len(Results) : ~Results[i].skipped }

\* C25: the collector returns success=false for every entry whose evidence
\* type is manual or manual_test, is missing, or is not in the dispatch
\* table, whatever the workspace contains.
C25_ManualNeverSucceeds ==
  Reported =>
    \A i \in ClaimedEntries(spec) :
      (\/ spec.failures[i].evidence = Absent
       \/ spec.failures[i].evidence.type \notin DispatchedAutomatically) =>
        /\ report.kind = "report"
        /\ report.results[i].verification_result.success = FALSE
        /\ ~report.results[i].verified

\* C26: whenever a collector returns success=true, the evidence it returns
\* is a non-empty string.
C26_SuccessHasEvidence ==
  \A i \in Attempted :
    Results[i].verification_result.success =>
      /\ Results[i].verification_result.evidence # Null
      /\ Results[i].verification_result.evidence # ObjectValue
      /\ Len(Results[i].verification_result.evidence) > 0

\* C28: every evidence string the collector returns is at most 2000
\* characters long, for every strategy.
C28_EvidenceIsBounded ==
  \A i \in Attempted :
    Results[i].verification_result.evidence \notin {Null, ObjectValue} =>
      Len(Results[i].verification_result.evidence) <= 2000

\* ================================== further claims on the priority order
EqualButEase(f, g) ==
  /\ f.severity = g.severity
  /\ f.likelihood = g.likelihood
  /\ f.blast_radius = g.blast_radius
Harder(f, g) ==
  \/ f.verification_ease = "hard" /\ g.verification_ease # "hard"
  \/ f.verification_ease = "moderate" /\ g.verification_ease = "trivial"
HarderGoesFirst ==
  Ordered =>
    \A i, j \in 1..2 :
      (/\ EqualButEase(spec.failures[i], spec.failures[j])
       /\ Harder(spec.failures[i], spec.failures[j]))
      => report.order = <<i, j>>

SeverityRank(f) ==
  CASE f.severity = "critical" -> 4 [] f.severity = "high" -> 3
    [] f.severity = "medium" -> 2 [] f.severity = "low" -> 1
C35_ValidatorRejectsAutomatedAcceptance ==
  ReportedValid =>
    \A i \in 1..Len(spec.failures) :
      (/\ spec.failures[i].status # Absent
       /\ spec.failures[i].status.state = "accepted_risk"
       /\ spec.failures[i].status.risk_acceptance # Absent)
      => LooksHuman(spec.failures[i].status.risk_acceptance.accepted_by)


\* ================================== further claims on the lifecycle
\* C36: a rejection is resolved immediately back to unaddressed: starting from
\* entries that are all unaddressed, after any sequence of operations every
\* entry's state is one of the six enumerated states and no entry is left in
\* the state rejected.
C36_RejectionReturnsToUnaddressed ==
  spec # Absent =>
    \A k \in 1..Len(spec.failures) :
      /\ StateOf(spec.failures[k]) \in Range(VALID_STATES)
      /\ StateOf(spec.failures[k]) # "rejected"

C36_Witness ==
  /\ spec # Absent
  /\ \E k \in 1..Len(spec.failures) :
       /\ spec.failures[k].status # Absent
       /\ spec.failures[k].status.rejection # Absent
       /\ spec.failures[k].status.rejection.rejected_at = now
       /\ StateOf(spec.failures[k]) = "unaddressed"
  /\ \E j \in 1..Len(spec.failures) : StateOf(spec.failures[j]) = "verified"

\* C37: completion is stable: once every critical entry is verified or
\* accepted_risk, COMPLETE still holds after any further claim, verify, reject,
\* accept-risk or freeze (discover does not write the document).
C37_CompletionIsStable ==
  (spec # Absent /\ COMPLETE(spec)) =>
    /\ \A args \in ProgressClaimArgs :
         COMPLETE(commands_claim(spec, args, USER, now).spec)
    /\ \A args \in ProgressVerifyArgs :
         COMPLETE(commands_verify(spec, args, USER, now).spec)
    /\ \A args \in ProgressRejectArgs :
         COMPLETE(commands_reject(spec, args, USER, now).spec)
    /\ \A args \in ProgressAcceptRiskArgs :
         COMPLETE(commands_accept_risk(spec, args, now).spec)
    /\ \A commit \in InGit :
         COMPLETE(commands_freeze(spec, now, commit).spec)


\* C38: lifecycle operations preserve validity: if the document passes
\* validate, then after any successful claim, verify, reject, accept-risk or
\* freeze the resulting document still passes validate.
StillValid(r) == r.exit = 0 => validate(r.spec) = <<>>

C38_OperationsPreserveValidity ==
  (spec # Absent /\ validate(spec) = <<>>) =>
    /\ \A args \in ClaimArgs : StillValid(commands_claim(spec, args, USER, now))
    /\ \A args \in VerifyArgs : StillValid(commands_verify(spec, args, USER, now))
    /\ \A args \in RejectArgs : StillValid(commands_reject(spec, args, USER, now))
    /\ \A args \in AcceptRiskArgs :
         StillValid(commands_accept_risk(spec, args, now))
    /\ \A commit \in Commits : StillValid(commands_freeze(spec, now, commit))
    /\ \A cliCommit \in CliCommits, gitCommit \in Commits :
         StillValid(freeze_main(spec, cliCommit, gitCommit, now))

C38_Witness ==
  /\ spec # Absent
  /\ validate(spec) = <<>>
  /\ Frozen(spec)
  /\ HasState(spec, 1, "verified")
  /\ spec.failures[1].status.rejection # Absent
  /\ spec.failures[1].status.risk_acceptance # Absent


\* ================================== further claims on run.js
\* The evidence types dispatched to the test strategy (directly, or through the
\* security strategy once an artifact is found).
ExecutableTestTypes == DispatchedAutomatically \ {"code_review"}

\* the claimed entries of the document whose evidence is of one of the types
\* and whose id and criteria are text, as the schema declares them
ClaimedOfType(types) ==
  { i \in ClaimedEntries(spec) :
      /\ spec.failures[i].evidence # Absent
      /\ spec.failures[i].evidence.type \in types
      /\ spec.failures[i].id \notin {Null, NotAString}
      /\ spec.failures[i].evidence.criteria # NotAString }

NoLocation(failure) ==
  \/ failure.status.guardrail = Absent
  \/ ~Truthy(failure.status.guardrail.location)

\* The location denotes an external or infrastructure dependency.
DenotesExternal(location) ==
  includes(location, P_external) \/ includes(location, P_infrastructure)

\* The located file is missing from the workspace, or cannot be read.
MissingOrUnreadable(location, workspace) ==
  \/ workspace.source = Absent
  \/ workspace.source.path # ParseLocation(location).filePath
  \/ ~workspace.source.readable

\* C33: the inspection strategy fails when the entry has no
\* guardrail.location and when the located file is missing or unreadable,
\* except that a location denoting an external or infrastructure dependency
\* succeeds trivially with a note that separate verification is still
\* required; it succeeds with the file excerpt otherwise.
C33_InspectionOutcome ==
  \A i \in ClaimedOfType({"code_review"}) :
    \A workspace \in Workspaces :
      LET failure == spec.failures[i]
          r == collectCodeReviewEvidence(failure, workspace)
      IN IF NoLocation(failure) THEN ~r.success
         ELSE IF MissingOrUnreadable(failure.status.guardrail.location, workspace)
         THEN IF DenotesExternal(failure.status.guardrail.location)
              THEN r.success /\ r.method = M_External /\ r.note # ""
              ELSE ~r.success
         ELSE /\ r.success
              /\ r.method = M_CodeReview
                              \o ParseLocation(failure.status.guardrail.location).filePath


\* C34: a verification attempt by the runner acts only on claimed entries
\* (an entry in any other state is skipped and no collector is invoked for
\* it), reports verified exactly when the collector's result has success
\* true, and a failed attempt leaves the entry claimed, so that a later
\* attempt can be made: the runner never writes the document.
AttemptsOnlyClaimed ==
  (Reported /\ report.kind = "report") =>
    \A i \in 1..Len(Results) :
      IF i \in ClaimedEntries(spec)
      THEN /\ ~Results[i].skipped
           /\ Results[i].verified = Results[i].verification_result.success
           /\ StateOf(spec.failures[i]) = "claimed"
      ELSE /\ Results[i].skipped
           /\ Results[i].verification_result = Absent
           /\ ~Results[i].verified

C34_RunnerActsOnClaimedOnly ==
  /\ []AttemptsOnlyClaimed
  /\ [][spec' = spec]_vars

C34_Witness ==
  /\ Reported
  /\ report.kind = "report"
  /\ Len(Results) = 2
  /\ ~Results[1].skipped
  /\ ~Results[1].verified
  /\ Results[2].skipped
  /\ StateOf(spec.failures[1]) = "claimed"


\* ============================ two ffh commands running at the same time
\* Every command reads its file whole (loadSpec, loadJSON), changes the copy
\* and writes the copy back (saveSpec, saveJSON); nothing locks the file, so
\* another process can load or save between the two.
RaceContents ==
  { [ValidateDoc(<<E_F001, Claimed(E_F002, S_location)>>)
       EXCEPT !.metadata.frozen_at = 1, !.metadata.frozen_commit = "c1"] }

RaceCommands ==
  { [command |-> "claim", args |-> <<S_F001>>],
    [command |-> "verify", args |-> <<S_F002, FlagEvidence, S_testPassed>>],
    [command |-> "discover", args |-> <<S_race>>],
    [command |-> "discover", args |-> <<S_bypass>>] }

InitRace ==
  /\ report = NoReport
  /\ USER \in Users
  /\ spec \in RaceContents
  /\ discoveries = <<>>
  /\ now = 1
  /\ running = NotRunning

Saved_by_now == { q \in Procs : running[q].phase = "saved" }

\* const spec = loadSpec();   const discoveries = loadJSON(getDiscoveriesPath())
Load(p, commandLines) ==
  /\ running[p].phase = "idle"
  /\ \E c \in commandLines :
       running' = [running EXCEPT ![p] =
                     [phase |-> "loaded", command |-> c.command, args |-> c.args,
                      spec |-> IF c.command = "discover" THEN Absent ELSE spec,
                      ledger |-> IF c.command = "discover" THEN discoveries ELSE <<>>,
                      loaded_after |-> Saved_by_now]]
  /\ UNCHANGED <<report, USER, spec, discoveries, now>>

\* what the command makes of the copy it holds
Outcome(c, user, t) ==
  CASE c.command = "claim" -> commands_claim(c.spec, c.args, user, t)
    [] c.command = "verify" -> commands_verify(c.spec, c.args, user, t)
    [] c.command = "discover" ->
         LET r == commands_discover(TRUE, c.ledger, c.args, user, t)
         IN [spec |-> r.ledger, exit |-> r.exit]

\* a save that reads the file again and applies the command to what is there
Save_reloads(p) ==
  /\ running[p].phase = "loaded"
  /\ LET c == [running[p] EXCEPT !.spec = spec, !.ledger = discoveries]
         r == Outcome(c, USER, now)
     IN /\ spec' = IF c.command # "discover" /\ r.exit = 0 THEN r.spec ELSE spec
        /\ discoveries' =
             IF c.command = "discover" /\ r.exit = 0 THEN r.spec ELSE discoveries
        /\ running' = [running EXCEPT ![p] =
                         [@ EXCEPT !.phase = "saved"]
                           @@ [exit |-> r.exit, saved_after |-> Saved_by_now]]
  /\ UNCHANGED <<report, USER, now>>

\* saveSpec(spec);   saveJSON(getDiscoveriesPath(), discoveries)
Save(p) ==
  /\ running[p].phase = "loaded"
  /\ LET c == running[p]
         r == Outcome(c, USER, now)
     IN /\ spec' = IF c.command # "discover" /\ r.exit = 0 THEN r.spec ELSE spec
        /\ discoveries' =
             IF c.command = "discover" /\ r.exit = 0 THEN r.spec ELSE discoveries
        /\ running' = [running EXCEPT ![p] =
                         [@ EXCEPT !.phase = "saved"]
                           @@ [exit |-> r.exit, saved_after |-> Saved_by_now]]
  /\ UNCHANGED <<report, USER, now>>

NextRace ==
  \/ Tick
  \/ \E p \in Procs : Load(p, RaceCommands)
  \/ \E p \in Procs : Save(p)

SpecRace == InitRace /\ [][NextRace]_vars


\* ================================== claims on concurrent commands
BothSaved == \A p \in Procs : running[p].phase = "saved"
Succeeded == { p \in Procs : running[p].phase = "saved" /\ running[p].exit = 0 }
WritesLedger(p) == running[p].command = "discover"

\* the update of p's command is in the files
UpdatePresent(p) ==
  CASE running[p].command = "claim" ->
         /\ HasState(spec, findFailure(spec, running[p].args[1]), "claimed")
    [] running[p].command = "verify" ->
         /\ HasState(spec, findFailure(spec, running[p].args[1]), "verified")
    [] running[p].command = "discover" ->
         \E i \in 1..Len(discoveries) :
           discoveries[i].description = Join(running[p].args, 1)

NothingLost ==
  /\ \A p \in Succeeded : UpdatePresent(p)
  /\ Len(discoveries) = Cardinality({ p \in Succeeded : WritesLedger(p) })
  /\ \A i, j \in 1..Len(discoveries) :
       i # j => discoveries[i].id # discoveries[j].id

\* p saved first, and q had loaded the same file before that save
Overwrites(q, p) ==
  /\ p # q
  /\ {p, q} \subseteq Succeeded
  /\ p \in running[q].saved_after
  /\ p \notin running[q].loaded_after
  /\ WritesLedger(p) = WritesLedger(q)

\* C40 as stated: when two command invocations interleave their load and save
\* steps, no update is lost: both discoveries are present with distinct ids,
\* and both entries' status changes are present in the saved document.
C40_NoUpdateLost == BothSaved => NothingLost

\* C40 (amended): of two invocations that interleave their load and save steps
\* on the same file, the one that saves last overwrites the other's update:
\* two discovers leave the later saver's entry alone, with the id D001 both
\* were given, and of two status changes on different entries only the later
\* saver's is in the document. No update is lost when neither invocation
\* loads the file the other writes between that one's load and save.
C40_LaterSaveOverwrites ==
  BothSaved =>
    IF \E p, q \in Procs : Overwrites(q, p)
    THEN \A p, q \in Procs :
           Overwrites(q, p) =>
             /\ UpdatePresent(q)
             /\ WritesLedger(q) =>
                  /\ Len(discoveries) = 1
                  /\ discoveries[1].id = DiscoveryId(1)
                  /\ discoveries[1].description = Join(running[q].args, 1)
             /\ (~WritesLedger(q) /\ running[p].args[1] # running[q].args[1]) =>
                  LET k == findFailure(spec, running[p].args[1])
                  IN \A d \in RaceContents : spec.failures[k] = d.failures[k]
    ELSE NothingLost

C40_Witness ==
  /\ BothSaved
  /\ Overwrites("second", "first")
  /\ running["first"].command = "claim"
  /\ running["second"].command = "verify"
  /\ HasState(spec, 1, "unaddressed")
  /\ HasState(spec, 2, "verified")

====
